---- MODULE Spec2Model ----
(***************************************************************************)
(* Model of the Hamburg plot-listing pipeline:                             *)
(*   GrundstueckParser (data_parser.py)  ->  CSV file  ->                  *)
(*   QualityScorer (quality_scoring.py) / GrundstueckAnalyzer              *)
(*   (advanced_analytics.py).                                              *)
(*                                                                         *)
(* Representation.                                                         *)
(*   - A Python str is a sequence of one-character strings.                *)
(*   - None / NaN in a text field is Null; a missing XML element is Absent.*)
(*   - A float is an exact rational [n, d] with d > 0 in lowest terms;     *)
(*     NaN (and a numeric None) is [n |-> 0, d |-> 0], +inf is             *)
(*     [n |-> 1, d |-> 0].                                                 *)
(*   - quality_score is held in hundredths of a point (0..10000), the      *)
(*     weights in hundredths (40, 25, 20, 15).  For every combination of   *)
(*     sub-scores the four scoring functions can return, the IEEE double   *)
(*     sum p*0.40 + d*0.25 + r*0.20 + m*0.15 is exactly the real value,    *)
(*     so the scaled integer is the float the code computes.               *)
(*   - A DataFrame is a sequence of rows; a row is a function from column  *)
(*     names to cell values, so adding a column extends every row.         *)
(***************************************************************************)
EXTENDS Integers, Sequences, FiniteSets, TLC

(***************************************************************************)
(* Bounds of the model                                                     *)
(***************************************************************************)
\* longest batch of listings in the XML file
MaxItems == 2
\* parse() runs on one parser (self.data grows with each run)
MaxParses == 2

(***************************************************************************)
(* Text values                                                             *)
(***************************************************************************)
Null == <<"<None>">>
Absent == <<"<absent>">>

\* phrases the scoring functions look for
P_construction_plan == <<"c", "o", "n", "s", "t", "r", "u", "c", "t", "i", "o", "n", " ", "p", "l", "a", "n">>
P_bebauungsplan == <<"b", "e", "b", "a", "u", "u", "n", "g", "s", "p", "l", "a", "n">>
P_like_neighbour == <<"l", "i", "k", "e", " ", "n", "e", "i", "g", "h", "b", "o", "u", "r">>
P_developed == <<"d", "e", "v", "e", "l", "o", "p", "e", "d">>
P_partially == <<"p", "a", "r", "t", "i", "a", "l", "l", "y">>
P_not_developed == <<"n", "o", "t", " ", "d", "e", "v", "e", "l", "o", "p", "e", "d">>
P_yes == <<"y", "e", "s">>
P_no == <<"n", "o">>
\* str(float('nan'))
S_nan == <<"n", "a", "n">>
\* defaults of attributes.get in parse()
S_No == <<"N", "o">>
\* value of a CHECK attribute without text
S_Yes == <<"Y", "e", "s">>

\* texts occurring in the listings of the model
T_ConstructionPlan == <<"C", "o", "n", "s", "t", "r", "u", "c", "t", "i", "o", "n", " ", "p", "l", "a", "n">>
T_LikeNeighbour == <<"L", "i", "k", "e", " ", "n", "e", "i", "g", "h", "b", "o", "u", "r", "i", "n", "g">>
T_PlanLikeNeighbour == <<"C", "o", "n", "s", "t", "r", "u", "c", "t", "i", "o", "n", " ", "p", "l", "a", "n", " ", "l", "i", "k", "e", " ", "n", "e", "i", "g", "h", "b", "o", "u", "r">>
T_Bebauungsplan == <<"B", "e", "b", "a", "u", "u", "n", "g", "s", "p", "l", "a", "n">>
T_Outlying == <<"O", "u", "t", "l", "y", "i", "n", "g", " ", "a", "r", "e", "a">>
T_NA == <<"n", "/", "a">>
T_Developed == <<"D", "e", "v", "e", "l", "o", "p", "e", "d">>
T_Partially == <<"P", "a", "r", "t", "i", "a", "l", "l", "y", " ", "d", "e", "v", "e", "l", "o", "p", "e", "d">>
T_NotDeveloped == <<"N", "o", "t", " ", "d", "e", "v", "e", "l", "o", "p", "e", "d">>
T_PartiallyNot == <<"P", "a", "r", "t", "i", "a", "l", "l", "y", " ", "n", "o", "t", " ", "d", "e", "v", "e", "l", "o", "p", "e", "d">>
T_FullyDeveloped == <<"F", "u", "l", "l", "y", " ", "d", "e", "v", "e", "l", "o", "p", "e", "d">>
T_YES == <<"Y", "E", "S">>
T_Partly == <<"P", "a", "r", "t", "l", "y">>
T_Price500 == <<"€", "5", "0", "0", ",", "0", "0", "0">>
T_PriceMonth == <<"€", "1", ",", "8", "9", "7", " ", "/", " ", "m", "o", "n", "t", "h">>
T_PriceReq == <<"o", "n", " ", "r", "e", "q", "u", "e", "s", "t">>
T_Area1000 == <<"1", ",", "0", "0", "0", " ", "m", "²">>
T_AreaNoData == <<"n", "o", " ", "d", "a", "t", "a">>
T_Ppsqm524 == <<"€", "5", "2", "4">>
T_Addr == <<"2", "2", "3", "9", "7", " ", "D", "u", "v", "e", "n", "s", "t", "e", "d", "t", ",", " ", "H", "a", "m", "b", "u", "r", "g">>
T_NA2 == <<"N", "/", "A">>
T_NA3 == <<"N", "A">>
T_null == <<"n", "u", "l", "l">>
T_NaN == <<"N", "a", "N">>
T_Ppsqm230 == <<"€", "2", "3", "0">>
\* further texts of the listings: addresses, districts, title, descriptions,
\* agent and the remaining attributes
T_AddrPlz == <<"2", "2", "3", "9", "7", ",", " ", "H", "a", "m", "b", "u", "r", "g">>
T_AddrComma == <<",", " ", "H", "a", "m", "b", "u", "r", "g">>
T_Duvenstedt == <<"D", "u", "v", "e", "n", "s", "t", "e", "d", "t">>
T_Plz == <<"2", "2", "3", "9", "7">>
T_Street == <<"D", "o", "r", "f", "s", "t", "r", ".", " ", "1">>
T_Title == <<"P", "l", "o", "t", " ", "i", "n", " ", "D", "u", "v", "e", "n", "s", "t", "e", "d", "t">>
T_Descr == <<"S", "u", "n", "n", "y", " ", "p", "l", "o", "t">>
T_LocDesc == <<"Q", "u", "i", "e", "t", " ", "s", "t", "r", "e", "e", "t">>
T_Company == <<"H", "a", "u", "s", " ", "G", "m", "b", "H">>
T_Agent == <<"A", ".", " ", "M", "e", "y", "e", "r">>
T_Rating == <<"4", ".", "5">>
T_Sale == <<"P", "u", "r", "c", "h", "a", "s", "e">>
T_Use == <<"R", "e", "s", "i", "d", "e", "n", "t", "i", "a", "l">>
T_Free == <<"I", "m", "m", "e", "d", "i", "a", "t", "e", "l", "y">>
T_Commission == <<"3", ".", "5", "7", " ", "%">>
\* the texts of the docstrings of parse_price and parse_area
T_Price598550 == <<"€", "5", "9", "8", ",", "5", "5", "0">>
T_Price1897Month == <<"€", "1", ",", "8", "9", "7", " ", "/", " ", "m", "o", "n", "t", "h">>
T_Area1142 == <<"1", ",", "1", "4", "2", " ", "m", "²">>
T_Lat == <<"5", "3", ".", "5">>
T_Lng == <<"1", "0">>
T_BadCoord == <<"n", "o", "r", "t", "h">>

UpperAlpha == <<"A", "B", "C", "D", "E", "F", "G", "H", "I", "J", "K", "L", "M", "N", "O", "P", "Q", "R", "S", "T", "U", "V", "W", "X", "Y", "Z">>
LowerAlpha == <<"a", "b", "c", "d", "e", "f", "g", "h", "i", "j", "k", "l", "m", "n", "o", "p", "q", "r", "s", "t", "u", "v", "w", "x", "y", "z">>
DigitChars == <<"0", "1", "2", "3", "4", "5", "6", "7", "8", "9">>

\* str.lower() on one character
LowerChar(c) ==
    IF \E i \in 1..Len(UpperAlpha) : UpperAlpha[i] = c
    THEN LowerAlpha[CHOOSE i \in 1..Len(UpperAlpha) : UpperAlpha[i] = c]
    ELSE c

\* str.lower()
Lower(s) == [i \in 1..Len(s) |-> LowerChar(s[i])]

\* the Python test  sub in s
Contains(s, sub) ==
    \E i \in 0..(Len(s) - Len(sub)) : SubSeq(s, i + 1, i + Len(sub)) = sub

\* str(value) of a DataFrame cell: a missing cell is NaN and prints as 'nan'
Str(v) == IF v = Null THEN S_nan ELSE v

\* pd.isna(value)
IsNa(v) == v = Null

\* s.replace(c, '')
RECURSIVE Remove(_, _)
Remove(s, c) ==
    IF s = <<>> THEN <<>>
    ELSE IF Head(s) = c THEN Remove(Tail(s), c)
    ELSE <<Head(s)>> \o Remove(Tail(s), c)

\* s.split(c)[0]
RECURSIVE SplitFirst(_, _)
SplitFirst(s, c) ==
    IF s = <<>> \/ Head(s) = c THEN <<>>
    ELSE <<Head(s)>> \o SplitFirst(Tail(s), c)

RECURSIVE LStrip(_)
LStrip(s) == IF s # <<>> /\ Head(s) = " " THEN LStrip(Tail(s)) ELSE s

RECURSIVE RStrip(_)
RStrip(s) ==
    IF s # <<>> /\ s[Len(s)] = " " THEN RStrip(SubSeq(s, 1, Len(s) - 1)) ELSE s

\* s.strip()
Strip(s) == RStrip(LStrip(s))

(***************************************************************************)
(* Numbers                                                                 *)
(***************************************************************************)
NaN == [n |-> 0, d |-> 0]
Inf == [n |-> 1, d |-> 0]

RECURSIVE Gcd(_, _)
Gcd(a, b) == IF b = 0 THEN a ELSE Gcd(b, a % b)

\* the rational a/b in lowest terms (a >= 0, b > 0)
Rat(a, b) == [n |-> a \div Gcd(a, b), d |-> b \div Gcd(a, b)]

IsNum(x) == x.d > 0

\* float division as pandas performs it on a column: NaN propagates,
\* x/0 is inf for x > 0 and NaN for x = 0
FDiv(x, y) ==
    IF x = NaN \/ y = NaN THEN NaN
    ELSE IF x = Inf /\ y = Inf THEN NaN
    ELSE IF x = Inf THEN Inf
    ELSE IF y = Inf THEN Rat(0, 1)
    ELSE IF y.n = 0 THEN (IF x.n = 0 THEN NaN ELSE Inf)
    ELSE Rat(x.n * y.d, x.d * y.n)

IsDigit(c) == \E i \in 1..Len(DigitChars) : DigitChars[i] = c
DigitVal(c) == (CHOOSE i \in 1..Len(DigitChars) : DigitChars[i] = c) - 1

RECURSIVE DigitsValue(_)
DigitsValue(s) ==
    IF s = <<>> THEN 0
    ELSE DigitsValue(SubSeq(s, 1, Len(s) - 1)) * 10 + DigitVal(s[Len(s)])

RECURSIVE Pow10(_)
Pow10(k) == IF k = 0 THEN 1 ELSE 10 * Pow10(k - 1)

\* float(s) for the texts of the model: an unsigned decimal numeral with at
\* most one point; anything else raises ValueError, which is NaN here (both
\* callers catch the exception and return None)
ParseFloat(s) ==
    LET dots == {i \in 1..Len(s) : s[i] = "."}
        digs == {i \in 1..Len(s) : IsDigit(s[i])}
    IN  IF digs = {} \/ Cardinality(dots) > 1
           \/ digs \cup dots # 1..Len(s)
        THEN NaN
        ELSE IF dots = {} THEN Rat(DigitsValue(s), 1)
        ELSE LET p == CHOOSE i \in dots : TRUE
             IN  Rat(DigitsValue(Remove(s, ".")), Pow10(Len(s) - p))

(***************************************************************************)
(* IEEE 754 double arithmetic                                              *)
(*   The valuation divides floats whose quotients are not exact, and its   *)
(*   thresholds sit on quotients the data reaches (59.5/70 = 0.85), so     *)
(*   the rounding of each division decides results.  A double is           *)
(*     [c |-> "num", hi, lo, e]  with value (hi * 2^27 + lo) * 2^e and     *)
(*                               2^52 <= hi * 2^27 + lo < 2^53,            *)
(*     [c |-> "zero"], [c |-> "inf"] or [c |-> "nan"] (hi, lo, e = 0).     *)
(*   Only non-negative values occur.  Division rounds to nearest, ties to  *)
(*   even; exponents stay far from the overflow and subnormal ranges.      *)
(***************************************************************************)
\* base of the two limbs of a 53-bit significand
Limb == 134217728
\* smallest high limb of a normalized significand (2^25)
HiMin == 33554432

DNaN == [c |-> "nan", hi |-> 0, lo |-> 0, e |-> 0]
DInf == [c |-> "inf", hi |-> 0, lo |-> 0, e |-> 0]
DZero == [c |-> "zero", hi |-> 0, lo |-> 0, e |-> 0]

\* 2 * x for a two-limb integer x = <<hi, lo>>
LDouble(x) == <<2 * x[1] + ((2 * x[2]) \div Limb), (2 * x[2]) % Limb>>
LGeq(x, y) == x[1] > y[1] \/ (x[1] = y[1] /\ x[2] >= y[2])
\* x - y for x >= y
LSub(x, y) ==
    IF x[2] >= y[2] THEN <<x[1] - y[1], x[2] - y[2]>>
    ELSE <<x[1] - y[1] - 1, x[2] + Limb - y[2]>>
\* x + 1
LInc(x) == IF x[2] + 1 = Limb THEN <<x[1] + 1, 0>> ELSE <<x[1], x[2] + 1>>

\* shift a positive two-limb integer left until its significand is normalized
RECURSIVE Normalize(_, _)
Normalize(x, e) ==
    IF x[1] >= HiMin THEN [c |-> "num", hi |-> x[1], lo |-> x[2], e |-> e]
    ELSE LET x2 == LDouble(x)
         IN  IF x2[1] >= 0 THEN Normalize(x2, e - 1)
             ELSE [c |-> "num", hi |-> x2[1], lo |-> x2[2], e |-> e]

\* float(n) for an integer n >= 0
FromInt(n) == IF n = 0 THEN DZero ELSE Normalize(<<n \div Limb, n % Limb>>, 0)

\* k further quotient bits of r / b by long division: <<quotient, remainder>>
\* (the tests on q2 and r3 only make the evaluator compute them at each step)
RECURSIVE DivBits(_, _, _, _)
DivBits(r, b, q, k) ==
    IF k = 0 THEN <<q, r>>
    ELSE LET r2 == LDouble(r)
             bit == LGeq(r2, b)
             r3 == IF bit THEN LSub(r2, b) ELSE r2
             q2 == IF bit THEN LInc(LDouble(q)) ELSE LDouble(q)
         IN  IF q2[1] >= 0 /\ r3[1] >= 0 THEN DivBits(r3, b, q2, k - 1)
             ELSE <<q2, r3>>

\* round the 53-bit quotient q with remainder r (of divisor b) to nearest even
RoundQuotient(q, r, b, e) ==
    LET r2 == LDouble(r)
        up == IF r2 = b THEN q[2] % 2 = 1 ELSE LGeq(r2, b)
        q1 == IF up THEN LInc(q) ELSE q
    IN  IF q1[1] = 2 * HiMin THEN [c |-> "num", hi |-> HiMin, lo |-> 0, e |-> e + 1]
        ELSE [c |-> "num", hi |-> q1[1], lo |-> q1[2], e |-> e]

\* x / y on doubles, as numpy divides the cells of two float columns
DDiv(x, y) ==
    IF x.c = "nan" \/ y.c = "nan" THEN DNaN
    ELSE IF x.c = "inf" THEN (IF y.c = "inf" THEN DNaN ELSE DInf)
    ELSE IF y.c = "inf" THEN DZero
    ELSE IF y.c = "zero" THEN (IF x.c = "zero" THEN DNaN ELSE DInf)
    ELSE IF x.c = "zero" THEN DZero
    ELSE LET a == <<x.hi, x.lo>>
             b == <<y.hi, y.lo>>
         IN  IF LGeq(a, b)
             THEN LET qr == DivBits(LSub(a, b), b, <<0, 1>>, 52)
                  IN  RoundQuotient(qr[1], qr[2], b, x.e - y.e - 52)
             ELSE LET qr == DivBits(LSub(LDouble(a), b), b, <<0, 1>>, 52)
                  IN  RoundQuotient(qr[1], qr[2], b, x.e - y.e - 53)

\* x < y on doubles (False when either is NaN)
DLess(x, y) ==
    IF x.c = "nan" \/ y.c = "nan" THEN FALSE
    ELSE IF x.c = "inf" THEN FALSE
    ELSE IF y.c = "inf" THEN TRUE
    ELSE IF y.c = "zero" THEN FALSE
    ELSE IF x.c = "zero" THEN TRUE
    ELSE \/ x.e < y.e
         \/ x.e = y.e /\ ~ LGeq(<<x.hi, x.lo>>, <<y.hi, y.lo>>)

\* x <= y on doubles
DLeq(x, y) == x.c # "nan" /\ y.c # "nan" /\ (x = y \/ DLess(x, y))

\* the double nearest to the rational r (a decimal numeral read by float())
ToDouble(r) ==
    IF r = NaN THEN DNaN
    ELSE IF r = Inf THEN DInf
    ELSE DDiv(FromInt(r.n), FromInt(r.d))
(***************************************************************************)
(* Products, sums and differences of doubles                               *)
(*   The deal score multiplies, subtracts and adds floats.  The exact      *)
(*   result of each operation is computed on digit sequences (least        *)
(*   significant digit first, base 2^14) and rounded once to 53 bits, to   *)
(*   nearest, ties to even.                                                *)
(***************************************************************************)
Base == 16384

\* the 53-bit significand of a double as four digits
Digits(x) ==
    <<x.lo % Base, (x.lo \div Base) + (x.hi % 2) * 8192, (x.hi \div 2) % Base,
      x.hi \div 32768>>

\* the digits without leading zeros
RECURSIVE BTrim(_)
BTrim(x) ==
    IF x = <<>> \/ x[Len(x)] # 0 THEN x ELSE BTrim(SubSeq(x, 1, Len(x) - 1))

\* the digits of the number whose k-th digit position holds the (possibly
\* negative or too large) amount cols[k], given the carry into the first one
RECURSIVE Carry(_, _)
Carry(cols, carry) ==
    IF cols = <<>>
    THEN (IF carry = 0 THEN <<>> ELSE <<carry % Base>> \o Carry(<<>>, carry \div Base))
    ELSE <<(cols[1] + carry) % Base>>
             \o Carry(SubSeq(cols, 2, Len(cols)), (cols[1] + carry) \div Base)

\* x * y for two sequences of at most four digits
BMul(x, y) ==
    LET T(k, i) == IF i <= Len(x) /\ k + 1 - i >= 1 /\ k + 1 - i <= Len(y)
                   THEN x[i] * y[k + 1 - i] ELSE 0
    IN  BTrim(Carry([k \in 1..(Len(x) + Len(y) - 1) |->
                        T(k, 1) + T(k, 2) + T(k, 3) + T(k, 4)], 0))

\* x * m for a factor m of at most 2^14
BScale(x, m) == BTrim(Carry([k \in 1..Len(x) |-> x[k] * m], 0))

\* x * 2^k
RECURSIVE BShl(_, _)
BShl(x, k) ==
    IF k = 0 THEN x
    ELSE IF k >= 14 THEN BShl(<<0>> \o x, k - 14)
    ELSE BScale(x, 2 ^ k)

\* x + y
BAdd(x, y) ==
    LET n == IF Len(x) >= Len(y) THEN Len(x) ELSE Len(y)
        At(s, k) == IF k <= Len(s) THEN s[k] ELSE 0
    IN  BTrim(Carry([k \in 1..n |-> At(x, k) + At(y, k)], 0))

\* x - y for x >= y
BSub(x, y) ==
    LET At(s, k) == IF k <= Len(s) THEN s[k] ELSE 0
    IN  BTrim(Carry([k \in 1..Len(x) |-> x[k] - At(y, k)], 0))

\* the number of bits of x > 0
BitLen(x) ==
    LET top == x[Len(x)]
        bits == CHOOSE b \in 1..14 : 2 ^ (b - 1) <= top /\ top < 2 ^ b
    IN  14 * (Len(x) - 1) + bits

\* the double of the four digits q (2^52 <= q < 2^53) and the exponent e
FromDigits(q, e) ==
    [c |-> "num", hi |-> (q[2] \div 8192) + 2 * q[3] + 32768 * q[4],
     lo |-> q[1] + (q[2] % 8192) * Base, e |-> e]

\* the double nearest to x * 2^e, ties to even
Round(x, e) ==
    IF x = <<>> THEN DZero
    ELSE LET len == BitLen(x)
         IN  IF len <= 53
             THEN LET q == BShl(x, 53 - len)
                  IN  FromDigits(q, e - (53 - len))
             ELSE LET s == len - 53
                      t == (14 - (s % 14)) % 14
                      w == BShl(x, t)
                      cut == (s + t) \div 14
                      low == SubSeq(w, 1, cut)
                      q == SubSeq(w, cut + 1, Len(w))
                      rest == \E k \in 1..(cut - 1) : low[k] # 0
                      up == \/ low[cut] > 8192
                            \/ low[cut] = 8192 /\ (rest \/ q[1] % 2 = 1)
                      q1 == IF up THEN BAdd(q, <<1>>) ELSE q
                  IN  IF BitLen(q1) = 54
                      THEN [c |-> "num", hi |-> HiMin, lo |-> 0, e |-> e + s + 1]
                      ELSE FromDigits(q1, e + s)

\* x * y on doubles
DMul(x, y) ==
    IF x.c = "nan" \/ y.c = "nan" THEN DNaN
    ELSE IF x.c = "inf" \/ y.c = "inf"
    THEN (IF x.c = "zero" \/ y.c = "zero" THEN DNaN ELSE DInf)
    ELSE IF x.c = "zero" \/ y.c = "zero" THEN DZero
    ELSE Round(BMul(Digits(x), Digits(y)), x.e + y.e)

\* x + y on doubles
DAdd(x, y) ==
    IF x.c = "nan" \/ y.c = "nan" THEN DNaN
    ELSE IF x.c = "inf" \/ y.c = "inf" THEN DInf
    ELSE IF x.c = "zero" THEN y
    ELSE IF y.c = "zero" THEN x
    ELSE IF x.e >= y.e
    THEN Round(BAdd(BShl(Digits(x), x.e - y.e), Digits(y)), y.e)
    ELSE Round(BAdd(Digits(x), BShl(Digits(y), y.e - x.e)), x.e)

\* x - y on doubles, for a finite x >= y (the deal score subtracts fifty
\* times the ratio from 100, and the ratio stays below 2)
DSub(x, y) ==
    IF x.c = "nan" \/ y.c = "nan" THEN DNaN
    ELSE IF y.c = "zero" THEN x
    ELSE IF x.e >= y.e
    THEN Round(BSub(BShl(Digits(x), x.e - y.e), Digits(y)), y.e)
    ELSE Round(BSub(Digits(x), BShl(Digits(y), y.e - x.e)), x.e)


(***************************************************************************)
(* GrundstueckParser: field normalizers                                    *)
(***************************************************************************)
\* parse_price without the removal of the thousands separators
parse_price_keeping_commas(price_str) ==
    IF price_str = Null \/ price_str = <<>> THEN NaN
    ELSE ParseFloat(Strip(Remove(SplitFirst(price_str, "/"), "€")))

\* parse_price(price_str)
parse_price(price_str) ==
    IF price_str = Null \/ price_str = <<>> THEN NaN
    ELSE ParseFloat(Strip(Remove(Remove(SplitFirst(price_str, "/"), "€"), ",")))

IsAreaChar(c) == IsDigit(c) \/ c = "," \/ c = "."

\* end of the match of \s*m² at position i of s, or 0
RECURSIVE UnitEnd(_, _)
UnitEnd(s, i) ==
    IF i > Len(s) THEN 0
    ELSE IF s[i] = " " THEN UnitEnd(s, i + 1)
    ELSE IF s[i] = "m" /\ i + 1 <= Len(s) /\ s[i + 1] = "²" THEN i + 1
    ELSE 0

\* re.search(r'([\d,\.]+)\s*m²', area_str): the (start, end) pairs of group 1
\* for which the pattern matches
AreaMatches(s) ==
    {m \in (1..Len(s)) \X (1..Len(s)) :
        /\ m[1] <= m[2]
        /\ \A k \in m[1]..m[2] : IsAreaChar(s[k])
        /\ UnitEnd(s, m[2] + 1) # 0}

\* parse_area without the removal of the thousands separators
parse_area_keeping_commas(area_str) ==
    IF area_str = Null \/ area_str = <<>> THEN NaN
    ELSE LET ms == AreaMatches(area_str)
         IN  IF ms = {} THEN NaN
             ELSE LET st == CHOOSE i \in {m[1] : m \in ms} :
                                \A j \in {m[1] : m \in ms} : i <= j
                      en == CHOOSE e \in {m[2] : m \in {q \in ms : q[1] = st}} :
                                \A f \in {m[2] : m \in {q \in ms : q[1] = st}} : f <= e
                  IN  ParseFloat(SubSeq(area_str, st, en))

\* parse_area(area_str)
parse_area(area_str) ==
    IF area_str = Null \/ area_str = <<>> THEN NaN
    ELSE LET ms == AreaMatches(area_str)
         IN  IF ms = {} THEN NaN
             ELSE LET st == CHOOSE i \in {m[1] : m \in ms} :
                                \A j \in {m[1] : m \in ms} : i <= j
                      en == CHOOSE e \in {m[2] : m \in {q \in ms : q[1] = st}} :
                                \A f \in {m[2] : m \in {q \in ms : q[1] = st}} : f <= e
                  IN  ParseFloat(Remove(SubSeq(area_str, st, en), ","))

(***************************************************************************)
(* Listing documents                                                       *)
(*   item     = [id, sections]           id: text of header/id or Absent   *)
(*   MAP      = [type, location, addressLine1, addressLine2]               *)
(*              location = [present, lat, lng]; leaves are Absent (no      *)
(*              element), Null (element without text) or a text            *)
(*   TOP_ATTRIBUTES / ATTRIBUTE_LIST = [type, attributes]                  *)
(*              attribute = [label, text, type]                            *)
(*   TITLE    = [type, title]            title: a leaf                     *)
(*   TEXT_AREA = [type, title, text]     title: its text or "<absent>"     *)
(*   AGENTS_INFO = [type, company, name, rating]     three leaves          *)
(***************************************************************************)
NoLocation == [present |-> FALSE, lat |-> Absent, lng |-> Absent]
Location(lat, lng) == [present |-> TRUE, lat |-> lat, lng |-> lng]
MapSection(loc, a2) ==
    [type |-> "MAP", location |-> loc, addressLine1 |-> Absent, addressLine2 |-> a2]
StreetMapSection(loc, a1, a2) ==
    [type |-> "MAP", location |-> loc, addressLine1 |-> a1, addressLine2 |-> a2]
TitleSection(title) == [type |-> "TITLE", title |-> title]
TextArea(title, text) == [type |-> "TEXT_AREA", title |-> title, text |-> text]
AgentsInfo(company, name, rating) ==
    [type |-> "AGENTS_INFO", company |-> company, name |-> name, rating |-> rating]
Attr(label, text) == [label |-> label, text |-> text, type |-> "TEXT"]
Check(label) == [label |-> label, text |-> Absent, type |-> "CHECK"]
TopAttributes(attrs) == [type |-> "TOP_ATTRIBUTES", attributes |-> attrs]
AttributeList(attrs) == [type |-> "ATTRIBUTE_LIST", attributes |-> attrs]

\* dict operations (Get_none_for_missing ignores the default of dict.get)
EmptyDict == <<>>
Put(dict, k, v) == [x \in (DOMAIN dict) \cup {k} |-> IF x = k THEN v ELSE dict[x]]
Get_none_for_missing(dict, k, default) == IF k \in DOMAIN dict THEN dict[k] ELSE Null
Get(dict, k, default) == IF k \in DOMAIN dict THEN dict[k] ELSE default

\* the sections of item with the given type marker, in document order
SectionsOfType(item, t) == SelectSeq(item.sections, LAMBDA s : s.type = t)

\* extract_coordinates(item): float() raises on a leaf without text (TypeError)
\* or with a non-numeric text (ValueError)
RECURSIVE CoordinatesFrom(_)
CoordinatesFrom(maps) ==
    IF maps = <<>> THEN [raised |-> FALSE, lat |-> NaN, lng |-> NaN]
    ELSE LET loc == Head(maps).location
         IN  IF loc.present /\ loc.lat # Absent /\ loc.lng # Absent
             THEN IF loc.lat = Null \/ loc.lng = Null
                     \/ ParseFloat(Strip(loc.lat)) = NaN
                     \/ ParseFloat(Strip(loc.lng)) = NaN
                  THEN [raised |-> TRUE, lat |-> NaN, lng |-> NaN]
                  ELSE [raised |-> FALSE, lat |-> ParseFloat(Strip(loc.lat)),
                        lng |-> ParseFloat(Strip(loc.lng))]
             ELSE CoordinatesFrom(Tail(maps))

extract_coordinates(item) == CoordinatesFrom(SectionsOfType(item, "MAP"))

\* element.text if element is not None else None
TextOrNone(leaf) == IF leaf = Absent THEN Null ELSE leaf

\* extract_address(item)
extract_address(item) ==
    LET maps == SectionsOfType(item, "MAP")
    IN  IF maps = <<>> THEN [street |-> Null, full |-> Null]
        ELSE [street |-> TextOrNone(Head(maps).addressLine1),
              full |-> TextOrNone(Head(maps).addressLine2)]

\* item.find('.//sections[type="TITLE"]/title'): the first title element of a
\* TITLE section, and its text
RECURSIVE TitleFrom(_)
TitleFrom(secs) ==
    IF secs = <<>> THEN Null
    ELSE IF Head(secs).title # Absent THEN Head(secs).title
    ELSE TitleFrom(Tail(secs))

extract_title(item) == TitleFrom(SectionsOfType(item, "TITLE"))

\* the loop of extract_description: title and text elements present
RECURSIVE ReadDescriptions(_, _)
ReadDescriptions(secs, dict) ==
    IF secs = <<>> THEN dict
    ELSE LET s == Head(secs)
         IN  ReadDescriptions(Tail(secs),
                              IF s.title # "<absent>" /\ s.text # Absent
                              THEN Put(dict, s.title, s.text) ELSE dict)

\* extract_description(item)
extract_description(item) ==
    ReadDescriptions(SectionsOfType(item, "TEXT_AREA"), EmptyDict)

\* extract_agent_info(item)
extract_agent_info(item) ==
    LET agents == SectionsOfType(item, "AGENTS_INFO")
    IN  IF agents = <<>> THEN [company |-> Null, name |-> Null, rating |-> Null]
        ELSE [company |-> TextOrNone(Head(agents).company),
              name |-> TextOrNone(Head(agents).name),
              rating |-> TextOrNone(Head(agents).rating)]

\* the digits at the start of s
RECURSIVE LeadingDigits(_)
LeadingDigits(s) ==
    IF s # <<>> /\ IsDigit(Head(s)) THEN <<Head(s)>> \o LeadingDigits(Tail(s))
    ELSE <<>>

\* re.sub(r'^\d+\s+', '', s): one or more digits followed by one or more
\* whitespace characters are removed from the start; otherwise s is unchanged
sub_postcode(s) ==
    LET rest == SubSeq(s, Len(LeadingDigits(s)) + 1, Len(s))
    IN  IF LeadingDigits(s) # <<>> /\ LStrip(rest) # rest THEN LStrip(rest) ELSE s

\* the district of parse(): None unless address['full'] is truthy
district(full) ==
    IF full = Null \/ full = <<>> THEN Null
    ELSE sub_postcode(Strip(SplitFirst(full, ",")))

\* all attributes of the given sections, in document order
RECURSIVE AllAttributes(_)
AllAttributes(secs) ==
    IF secs = <<>> THEN <<>> ELSE Head(secs).attributes \o AllAttributes(Tail(secs))

\* first loop of extract_attributes: label and text present
RECURSIVE ReadTop(_, _)
ReadTop(attrs, dict) ==
    IF attrs = <<>> THEN dict
    ELSE LET a == Head(attrs)
         IN  ReadTop(Tail(attrs),
                     IF a.label # "<absent>" /\ a.text # Absent
                     THEN Put(dict, a.label, a.text) ELSE dict)

\* second loop of extract_attributes: text, or 'Yes' for a CHECK without text
RECURSIVE ReadList(_, _)
ReadList(attrs, dict) ==
    IF attrs = <<>> THEN dict
    ELSE LET a == Head(attrs)
         IN  ReadList(Tail(attrs),
                      IF a.label = "<absent>" THEN dict
                      ELSE IF a.text # Absent THEN Put(dict, a.label, a.text)
                      ELSE IF a.type = "CHECK" THEN Put(dict, a.label, S_Yes)
                      ELSE dict)

\* extract_attributes with the two loops exchanged
extract_attributes_lists_first(item) ==
    ReadTop(AllAttributes(SectionsOfType(item, "TOP_ATTRIBUTES")),
            ReadList(AllAttributes(SectionsOfType(item, "ATTRIBUTE_LIST")), EmptyDict))

\* extract_attributes(item)
extract_attributes(item) ==
    ReadList(AllAttributes(SectionsOfType(item, "ATTRIBUTE_LIST")),
             ReadTop(AllAttributes(SectionsOfType(item, "TOP_ATTRIBUTES")), EmptyDict))

\* the try body of parse() for one item: the record, or the exception
ExtractItem(item) ==
    LET coords == extract_coordinates(item)
        address == extract_address(item)
        attributes == extract_attributes(item)
        descriptions == extract_description(item)
        agent == extract_agent_info(item)
    IN  IF coords.raised THEN [raised |-> TRUE, rec |-> <<>>]
        ELSE [raised |-> FALSE,
              rec |->
                [id |-> TextOrNone(item.id),
                 title |-> extract_title(item),
                 purchase_price |->
                     parse_price(Get(attributes, "Purchase:",
                                     Get(attributes, "Purchase price", <<>>))),
                 plot_area |->
                     parse_area(Get(attributes, "Plot area approx.:",
                                    Get(attributes, "Plot area", <<>>))),
                 price_per_sqm |-> parse_price(Get(attributes, "Price/m²:", <<>>)),
                 street |-> address.street,
                 full_address |-> address.full,
                 district |-> district(address.full),
                 latitude |-> coords.lat,
                 longitude |-> coords.lng,
                 commercialisation_type |->
                     Get(attributes, "Commercialisation type:", Null),
                 short_term_constructible |->
                     Get(attributes, "Short-term constructible:", S_No),
                 development |-> Get(attributes, "Development:", Null),
                 constructible_type |-> Get(attributes, "Constructible type:", Null),
                 recommended_use |-> Get(attributes, "Recommended use:", Null),
                 demolition |-> Get(attributes, "Demolition:", S_No),
                 free_from |-> Get(attributes, "Free from:", Null),
                 commission |-> Get(attributes, "Commission for the purchaser:", Null),
                 description |-> Get(descriptions, "Property description", Null),
                 location_desc |-> Get(descriptions, "Location", Null),
                 further_notes |-> Get(descriptions, "Further notes", Null),
                 agent_company |-> agent.company,
                 agent_name |-> agent.name,
                 agent_rating |-> agent.rating]]

\* an except clause that lets the exception leave the loop
ExceptHandler_reraise(acc) == [data |-> acc, propagate |-> TRUE]

\* an except clause that throws away the records collected so far
ExceptHandler_discard(acc) == [data |-> <<>>, propagate |-> FALSE]

\* the except clause of parse(): print the error and continue with the next
\* item; the exception does not leave the loop
ExceptHandler(acc) == [data |-> acc, propagate |-> FALSE]

\* the for loop of parse() over the items not yet visited
RECURSIVE parse_loop(_, _)
parse_loop(its, acc) ==
    IF its = <<>> THEN [data |-> acc, raised |-> FALSE]
    ELSE LET r == ExtractItem(Head(its))
         IN  IF r.raised
             THEN LET h == ExceptHandler(acc)
                  IN  IF h.propagate THEN [data |-> h.data, raised |-> TRUE]
                      ELSE parse_loop(Tail(its), h.data)
             ELSE parse_loop(Tail(its), Append(acc, r.rec))

(***************************************************************************)
(* The listings of the model                                               *)
(***************************************************************************)
GoodMap == MapSection(Location(T_Lat, T_Lng), T_Addr)

\* priced plot without Price/m², construction plan, developed, ready
L_plan ==
    [id |-> <<"1">>,
     sections |-> <<GoodMap,
        TopAttributes(<<Attr("Purchase:", T_Price500),
                        Attr("Plot area approx.:", T_Area1000)>>),
        AttributeList(<<Attr("Constructible type:", T_ConstructionPlan),
                        Attr("Development:", T_Developed),
                        Check("Short-term constructible:")>>)>>]

\* rent-style price, unparsable area, explicit Price/m², demolition needed
L_beb ==
    [id |-> <<"2">>,
     sections |-> <<MapSection(NoLocation, Absent),
        TopAttributes(<<Attr("Purchase:", T_PriceMonth),
                        Attr("Plot area approx.:", T_AreaNoData),
                        Attr("Price/m²:", T_Ppsqm524)>>),
        AttributeList(<<Attr("Constructible type:", T_Bebauungsplan),
                        Attr("Development:", T_PartiallyNot),
                        Attr("Demolition:", S_Yes)>>)>>]

\* latitude leaf with a non-numeric text
L_bad ==
    [id |-> <<"3">>,
     sections |-> <<MapSection(Location(T_BadCoord, T_Lng), T_Addr),
        TopAttributes(<<Attr("Purchase:", T_Price500)>>)>>]

\* latitude leaf without text
L_empty ==
    [id |-> <<"4">>,
     sections |-> <<MapSection(Location(Null, T_Lng), T_Addr)>>]

\* listing without any section
L_bare == [id |-> Absent, sections |-> <<>>]

\* price on request, outlying area, not developed
L_out ==
    [id |-> <<"5">>,
     sections |->
       <<TopAttributes(<<Attr("Purchase:", T_PriceReq),
                         Attr("Plot area approx.:", T_Area1000)>>),
         AttributeList(<<Attr("Constructible type:", T_Outlying),
                         Attr("Development:", T_NotDeveloped),
                         Attr("Short-term constructible:", S_No)>>)>>]

\* location without latitude leaf, constructible type 'n/a'
L_na ==
    [id |-> <<"6">>,
     sections |-> <<MapSection(Location(Absent, T_Lng), T_Addr),
        TopAttributes(<<Attr("Purchase:", T_Price500),
                        Attr("Plot area approx.:", T_Area1000)>>),
        AttributeList(<<Attr("Constructible type:", T_NA),
                        Attr("Development:", T_FullyDeveloped),
                        Attr("Short-term constructible:", T_YES),
                        Attr("Demolition:", T_Partly)>>)>>]

\* complete listing, like neighbouring buildings, partially developed
L_like ==
    [id |-> <<"7">>,
     sections |-> <<GoodMap,
        TopAttributes(<<Attr("Purchase:", T_Price500),
                        Attr("Plot area approx.:", T_Area1000),
                        Attr("Price/m²:", T_Ppsqm524)>>),
        AttributeList(<<Attr("Constructible type:", T_LikeNeighbour),
                        Attr("Development:", T_Partially),
                        Attr("Demolition:", S_No)>>)>>]

\* complete listing with the best value of every scored attribute
L_best ==
    [id |-> <<"8">>,
     sections |-> <<GoodMap,
        TopAttributes(<<Attr("Purchase:", T_Price500),
                        Attr("Plot area approx.:", T_Area1000),
                        Attr("Price/m²:", T_Ppsqm524)>>),
        AttributeList(<<Attr("Constructible type:", T_ConstructionPlan),
                        Attr("Development:", T_Developed),
                        Attr("Short-term constructible:", S_Yes),
                        Attr("Demolition:", S_No)>>)>>]

\* listing with every section, the address holding a postal code only
L_full ==
    [id |-> <<"0">>,
     sections |-> <<StreetMapSection(Location(T_Lat, T_Lng), T_Street, T_AddrPlz),
        TitleSection(T_Title),
        TopAttributes(<<Attr("Purchase price", T_Price500),
                        Attr("Plot area", T_Area1000)>>),
        AttributeList(<<Attr("Commercialisation type:", T_Sale),
                        Attr("Recommended use:", T_Use),
                        Attr("Free from:", T_Free),
                        Attr("Commission for the purchaser:", T_Commission),
                        Attr("Development:", T_Developed)>>),
        TextArea("Property description", T_Descr),
        TextArea("Location", T_LocDesc),
        TextArea("Further notes", Null),
        AgentsInfo(T_Company, T_Agent, T_Rating)>>]

\* address starting with the comma, title section without title, text area
\* without text, agent with a name only
L_comma ==
    [id |-> <<"C">>,
     sections |-> <<MapSection(NoLocation, T_AddrComma),
        TitleSection(Absent),
        TextArea("Property description", Absent),
        AgentsInfo(Absent, T_Agent, Absent)>>]

\* a label in both kinds of section, the top attributes first in the document
L_top_first ==
    [id |-> <<"A">>,
     sections |->
       <<TopAttributes(<<Attr("Development:", T_Partially),
                         Attr("Purchase:", T_Price500)>>),
         AttributeList(<<Attr("Development:", T_Developed),
                         Check("Short-term constructible:")>>)>>]

\* the same label in both kinds of section, the attribute list first; a label
\* twice in the lists; a list entry without text that is no CHECK
L_list_first ==
    [id |-> <<"B">>,
     sections |->
       <<AttributeList(<<Attr("Development:", T_Developed),
                         Attr("Demolition:", S_Yes),
                         [label |-> "Constructible type:", text |-> Absent,
                          type |-> "TEXT"]>>),
         TopAttributes(<<Attr("Development:", T_Partially),
                         Attr("Constructible type:", T_Outlying)>>),
         AttributeList(<<Attr("Demolition:", T_Partly)>>)>>]

ListingSet ==
    {L_plan, L_beb, L_bad, L_empty, L_bare, L_out, L_na, L_like, L_best, L_full,
     L_comma, L_top_first, L_list_first}

\* the sequences of at most k elements of S
RECURSIVE SeqsUpTo(_, _)
SeqsUpTo(S, k) ==
    IF k = 0 THEN {<<>>}
    ELSE LET shorter == SeqsUpTo(S, k - 1)
         IN  shorter \cup {Append(q, x) : q \in {r \in shorter : Len(r) = k - 1}, x \in S}

\* the listings that also occur together with others: two that extract and
\* the two that raise
CoreListings == {L_beb, L_out, L_bad, L_empty}

\* the batches of the model: every listing alone, and every sequence of at
\* most MaxItems core listings
Batches == {<<x>> : x \in ListingSet} \cup SeqsUpTo(CoreListings, MaxItems)

(***************************************************************************)
(* CSV files                                                               *)
(***************************************************************************)
TextCols == {"id", "title", "street", "full_address", "district",
             "commercialisation_type", "short_term_constructible", "development",
             "constructible_type", "recommended_use", "demolition", "free_from",
             "commission", "description", "location_desc", "further_notes",
             "agent_company", "agent_name", "agent_rating"}

\* strings pd.read_csv reads as NaN (besides the empty field)
NaValues == {T_NA, T_NA2, T_NA3, T_null, T_NaN, S_nan}

NoFile == [exists |-> FALSE, rows |-> <<>>]

\* DataFrame.to_csv: None is written as an empty field
WriteCell(v) == IF v = Null THEN <<>> ELSE v
WriteRow(rec) == [c \in DOMAIN rec |-> IF c \in TextCols THEN WriteCell(rec[c]) ELSE rec[c]]
WriteCsv(recs) == [exists |-> TRUE, rows |-> [i \in 1..Len(recs) |-> WriteRow(recs[i])]]

\* pd.read_csv: empty fields and the NaN spellings become NaN
ReadCell(c) == IF c = <<>> \/ c \in NaValues THEN Null ELSE c
ReadRow(row) == [c \in DOMAIN row |-> IF c \in TextCols THEN ReadCell(row[c]) ELSE row[c]]
read_csv(file) == [i \in 1..Len(file.rows) |-> ReadRow(file.rows[i])]

\* CSV files that did not come from this parser: one row each
ExternalPrices ==
    {[purchase_price |-> Rat(500000, 1), plot_area |-> Rat(1000, 1), price_per_sqm |-> NaN],
     [purchase_price |-> NaN, plot_area |-> NaN, price_per_sqm |-> Rat(524, 1)],
     [purchase_price |-> NaN, plot_area |-> NaN, price_per_sqm |-> Rat(230, 1)],
     [purchase_price |-> NaN, plot_area |-> NaN, price_per_sqm |-> Rat(0, 1)]}

ExternalRow(p, st, dv, ct, dm) ==
    [id |-> <<"9">>, purchase_price |-> p.purchase_price, plot_area |-> p.plot_area,
     price_per_sqm |-> p.price_per_sqm, full_address |-> T_Addr,
     latitude |-> NaN, longitude |-> NaN,
     short_term_constructible |-> st, development |-> dv,
     constructible_type |-> ct, demolition |-> dm]

\* every combination of the scored attributes at one price, and every price
\* at the combinations scoring 80 and 59.5 and at the empty one
ExternalRows ==
    {ExternalRow([purchase_price |-> NaN, plot_area |-> NaN, price_per_sqm |-> Rat(524, 1)],
                 st, dv, ct, dm) :
       st \in {S_Yes, T_YES, S_No, <<>>},
       dv \in {T_Developed, T_Partially, T_NotDeveloped, T_PartiallyNot,
               T_FullyDeveloped, <<>>},
       ct \in {T_ConstructionPlan, T_LikeNeighbour, T_PlanLikeNeighbour,
               T_Bebauungsplan, T_Outlying, T_NA, <<>>},
       dm \in {S_No, S_Yes, T_Partly, <<>>}}
    \cup
    {ExternalRow(p, c[1], c[2], c[3], c[4]) :
       p \in ExternalPrices,
       c \in {<<S_Yes, T_Developed, T_ConstructionPlan, S_No>>,
              <<S_Yes, T_Partially, T_ConstructionPlan, S_Yes>>,
              <<<<>>, <<>>, <<>>, <<>>>>}}

\* rows with every column of the parser: the record of L_best at another
\* price per square metre and with other scored attributes
FullRow(price, c) ==
    LET row == WriteRow(ExtractItem(L_best).rec)
        new == [price_per_sqm |-> Rat(price, 1), short_term_constructible |-> c[1],
                development |-> c[2], constructible_type |-> c[3], demolition |-> c[4]]
    IN  [k \in DOMAIN row |-> IF k \in DOMAIN new THEN new[k] ELSE row[k]]

\* two prices at the combinations scoring 80 and 59.5
FullRows ==
    {FullRow(price, c) :
       price \in {230, 524},
       c \in {<<S_Yes, T_Developed, T_ConstructionPlan, S_No>>,
              <<S_Yes, T_Partially, T_ConstructionPlan, S_Yes>>}}

ExternalFiles ==
    {[exists |-> TRUE, rows |-> <<r>>] : r \in ExternalRows}
        \cup {[exists |-> TRUE, rows |-> <<r1, r2>>] : r1, r2 \in FullRows}

(***************************************************************************)
(* QualityScorer                                                           *)
(***************************************************************************)
\* WEIGHTS, in hundredths
W_building_permission == 40
W_development == 25
W_construction_readiness == 20
W_demolition == 15

\* pd.to_numeric(value, errors='coerce')
to_numeric(x) == IF IsNum(x) \/ x = Inf THEN x ELSE NaN

\* replace / add the columns of new in row
SetCols(row, new) ==
    [c \in (DOMAIN row) \cup (DOMAIN new) |-> IF c \in DOMAIN new THEN new[c] ELSE row[c]]

\* QualityScorer._prepare_data on one row
prepare_row(row) ==
    SetCols(row, [purchase_price |-> to_numeric(row.purchase_price),
                  plot_area |-> to_numeric(row.plot_area),
                  price_per_sqm |-> to_numeric(row.price_per_sqm)])

\* the neighbour test placed before the construction-plan test
score_building_permission_reordered(row) ==
    LET constructible_type == Lower(Str(row.constructible_type))
    IN  IF Contains(constructible_type, P_like_neighbour) THEN 40
        ELSE IF Contains(constructible_type, P_construction_plan)
                \/ Contains(constructible_type, P_bebauungsplan) THEN 50
        ELSE IF IsNa(row.constructible_type) THEN 20
        ELSE 30

\* score_building_permission(row)
score_building_permission(row) ==
    LET constructible_type == Lower(Str(row.constructible_type))
    IN  IF Contains(constructible_type, P_construction_plan)
           \/ Contains(constructible_type, P_bebauungsplan) THEN 50
        ELSE IF Contains(constructible_type, P_like_neighbour) THEN 40
        ELSE IF IsNa(row.constructible_type) THEN 20
        ELSE 30

\* the 'not developed' test placed before the 'partially' test
score_development_reordered(row) ==
    LET development == Lower(Str(row.development))
    IN  IF P_developed = development \/ development = P_developed THEN 100
        ELSE IF Contains(development, P_not_developed) THEN 20
        ELSE IF Contains(development, P_partially) THEN 60
        ELSE 50

\* score_development(row)
score_development(row) ==
    LET development == Lower(Str(row.development))
    IN  IF P_developed = development \/ development = P_developed THEN 100
        ELSE IF Contains(development, P_partially) THEN 60
        ELSE IF Contains(development, P_not_developed) THEN 20
        ELSE 50

\* the comparison without .lower()
score_construction_readiness_cased(row) ==
    LET short_term == Str(row.short_term_constructible)
    IN  IF short_term = P_yes THEN 100 ELSE 40

\* score_construction_readiness(row)
score_construction_readiness(row) ==
    LET short_term == Lower(Str(row.short_term_constructible))
    IN  IF short_term = P_yes THEN 100 ELSE 40

\* a plot offered at 230 per square metre taken to need demolition
score_demolition_by_price(row) ==
    LET demolition == Lower(Str(row.demolition))
    IN  IF row.price_per_sqm = Rat(230, 1) THEN 30
        ELSE IF demolition = P_no THEN 100
        ELSE IF demolition = P_yes THEN 30
        ELSE 70

\* score_demolition(row)
score_demolition(row) ==
    LET demolition == Lower(Str(row.demolition))
    IN  IF demolition = P_no THEN 100
        ELSE IF demolition = P_yes THEN 30
        ELSE 70

\* the weights of permission and development exchanged
weighted_score_swapped(p, d, r, m) ==
    p * W_development + d * W_building_permission
      + r * W_construction_readiness + m * W_demolition

\* the demolition weight written 1.5 instead of 0.15
weighted_score_typo(p, d, r, m) ==
    p * W_building_permission + d * W_development
      + r * W_construction_readiness + m * 150

\* the weighted sum of calculate_quality_score, in hundredths of a point
weighted_score(p, d, r, m) ==
    p * W_building_permission + d * W_development
      + r * W_construction_readiness + m * W_demolition

\* pd.cut with right=False: intervals closed on the left, open on the right
quality_category_left(s) ==
    IF \E i \in 1..4 : <<0, 4000, 6000, 8000, 10000>>[i] <= s
                        /\ s < <<0, 4000, 6000, 8000, 10000>>[i + 1]
    THEN <<"Niedrig", "Mittel", "Gut", "Sehr Gut">>[
            CHOOSE i \in 1..4 : <<0, 4000, 6000, 8000, 10000>>[i] <= s
                                /\ s < <<0, 4000, 6000, 8000, 10000>>[i + 1]]
    ELSE "NaN"

\* pd.cut(quality_score, bins=[0, 40, 60, 80, 100], labels=[...]): intervals
\* are open on the left and closed on the right; a value in no interval is NaN
\* (the first two lists put the edge just below 40 and just below 80)
CutBins_edge_below_40 == <<0, 3999, 6000, 8000, 10000>>
CutBins_edge_below_80 == <<0, 4000, 6000, 7999, 10000>>
CutBins == <<0, 4000, 6000, 8000, 10000>>
CutLabels == <<"Niedrig", "Mittel", "Gut", "Sehr Gut">>
quality_category(s) ==
    IF \E i \in 1..Len(CutLabels) : CutBins[i] < s /\ s <= CutBins[i + 1]
    THEN CutLabels[CHOOSE i \in 1..Len(CutLabels) : CutBins[i] < s /\ s <= CutBins[i + 1]]
    ELSE "NaN"

\* calculate_quality_score on one row
score_row(row) ==
    LET p == score_building_permission(row)
        d == score_development(row)
        r == score_construction_readiness(row)
        m == score_demolition(row)
        q == weighted_score(p, d, r, m)
    IN  SetCols(row, [score_building_permission |-> p,
                      score_development |-> d,
                      score_construction_readiness |-> r,
                      score_demolition |-> m,
                      quality_score |-> q,
                      quality_category |-> quality_category(q)])

(***************************************************************************)
(* Valuation                                                               *)
(***************************************************************************)
\* a quality_score cell that is NaN (only in frames whose quality_score
\* column was not computed by calculate_quality_score)
ScoreNaN == -1

\* the float in a quality_score cell
ScoreToDouble(q) == IF q = ScoreNaN THEN DNaN ELSE ToDouble(Rat(q, 100))

\* the literals of get_value_rating
R_085 == ToDouble(Rat(85, 100))
R_095 == ToDouble(Rat(95, 100))
R_105 == ToDouble(Rat(105, 100))
R_115 == ToDouble(Rat(115, 100))

\* ratings with the first comparison inclusive
get_value_rating_inclusive(ratio) ==
    IF ratio.c = "nan" THEN "Keine Daten"
    ELSE IF DLeq(ratio, R_085) THEN "Sehr günstig"
    ELSE IF DLess(ratio, R_095) THEN "Günstig"
    ELSE IF DLeq(ratio, R_105) THEN "Fair"
    ELSE IF DLeq(ratio, R_115) THEN "Teuer"
    ELSE "Sehr teuer"

\* get_value_rating(ratio)
get_value_rating(ratio) ==
    IF ratio.c = "nan" THEN "Keine Daten"
    ELSE IF DLess(ratio, R_085) THEN "Sehr günstig"
    ELSE IF DLess(ratio, R_095) THEN "Günstig"
    ELSE IF DLeq(ratio, R_105) THEN "Fair"
    ELSE IF DLeq(ratio, R_115) THEN "Teuer"
    ELSE "Sehr teuer"

\* the reference score of the quality factor
ReferenceScore == 70

\* the quality factor taken relative to 100 points
quality_factor_of_100(q) == DDiv(ScoreToDouble(q), FromInt(100))

\* df['quality_score'] / 70.0 on one cell
quality_factor(q) == DDiv(ScoreToDouble(q), FromInt(ReferenceScore))

\* the three divisions of calculate_quality_adjusted_price on the cells of
\* one row
value_cells(price_per_sqm, quality_score) ==
    LET price == ToDouble(price_per_sqm)
        factor == quality_factor(quality_score)
        expected == DDiv(price, factor)
        ratio == DDiv(price, expected)
    IN  [quality_factor |-> factor,
         expected_price_per_sqm |-> expected,
         price_quality_ratio |-> ratio]

\* the prices and the quality scores of the model, and value_cells on them,
\* computed once
ValuePrices == {NaN, Rat(0, 1), Rat(230, 1), Rat(524, 1)}
ComputedScores ==
    {weighted_score(p, d, r, m) :
        p \in {20, 30, 40, 50}, d \in {20, 50, 60, 100}, r \in {40, 100},
        m \in {30, 70, 100}}
ValueMemo ==
    {[price |-> k[1], score |-> k[2], cells |-> value_cells(k[1], k[2])] :
        k \in ValuePrices \X ComputedScores}

\* calculate_quality_adjusted_price on one row
value_row(row) ==
    LET known == {m \in ValueMemo : m.price = row.price_per_sqm
                                      /\ m.score = row.quality_score}
        v == IF known # {} THEN (CHOOSE m \in known : TRUE).cells
             ELSE value_cells(row.price_per_sqm, row.quality_score)
    IN  SetCols(row, [quality_factor |-> v.quality_factor,
                      expected_price_per_sqm |-> v.expected_price_per_sqm,
                      price_quality_ratio |-> v.price_quality_ratio,
                      value_rating |-> get_value_rating(v.price_quality_ratio)])

(***************************************************************************)
(* GrundstueckAnalyzer                                                     *)
(***************************************************************************)
\* GrundstueckAnalyzer._clean_data on one row: missing price per square metre
\* is computed from price and area
clean_row(row) ==
    LET r == prepare_row(row)
    IN  IF r.price_per_sqm = NaN /\ r.purchase_price # NaN /\ r.plot_area # NaN
        THEN SetCols(r, [price_per_sqm |-> FDiv(r.purchase_price, r.plot_area)])
        ELSE r

(***************************************************************************)
(* State                                                                   *)
(***************************************************************************)
VARIABLES
    items,      \* the item nodes of the XML file given to the parser
    data,       \* GrundstueckParser.data
    outcome,    \* how the last parse() ended: "none", "returned", "raised"
    skipped,    \* listings counted as skipped by the except clause of parse()
    csv,        \* the CSV file
    json,       \* the JSON file
    df,         \* QualityScorer.df
    adf,        \* GrundstueckAnalyzer.df
    score,      \* a quality score handed to the category binning
    category,   \* its category
    text,       \* a text handed to parse_price or parse_area
    parsed,     \* which of the two was called: "none", "price", "area"
    number,     \* what it returned
    held,       \* the objects a caller holds by a returned reference: "data", "df"
    raised,     \* how the last call on the scorer ended: "none", "KeyError"
    deals       \* what the last find_best_quality_deals returned

vars == <<items, data, outcome, skipped, csv, json, df, adf, score, category, text, parsed, number,
          held, raised, deals>>

NoDf == [built |-> FALSE, rows |-> <<>>]

\* most records self.data may hold in the model
MaxData == MaxItems * MaxParses

Init ==
    /\ \/ items \in Batches /\ csv = NoFile
       \/ items = <<>> /\ csv \in ExternalFiles
    /\ data = <<>>
    /\ outcome = "none"
    /\ skipped = 0
    /\ json = NoFile
    /\ df = NoDf
    /\ adf = NoDf
    /\ score = 0
    /\ category = "unset"
    /\ text = <<>>
    /\ parsed = "none"
    /\ number = NaN
    /\ held = {}
    /\ raised = "none"
    /\ deals = <<>>

(***************************************************************************)
(* Operations of GrundstueckParser                                         *)
(***************************************************************************)
\* parse(): appends to self.data and returns self.data itself; the except
\* clause keeps no count
Parse ==
    /\ Len(data) + Len(items) <= MaxData
    /\ LET r == parse_loop(items, data)
       IN  /\ data' = r.data
           /\ outcome' = IF r.raised THEN "raised" ELSE "returned"
           /\ held' = IF r.raised THEN held ELSE held \cup {"data"}
    /\ UNCHANGED <<items, skipped, csv, json, df, adf, score, category, text, parsed, number,
                 raised, deals>>

\* self.data after  if not self.data: self.parse()
DataAfterEnsure == IF data = <<>> THEN parse_loop(items, data).data ELSE data
OutcomeAfterEnsure ==
    IF data = <<>>
    THEN (IF parse_loop(items, data).raised THEN "raised" ELSE "returned")
    ELSE outcome

\* to_dataframe()
ToDataframe ==
    /\ data' = DataAfterEnsure
    /\ outcome' = OutcomeAfterEnsure
    /\ UNCHANGED <<items, skipped, csv, json, df, adf, score, category, text, parsed, number,
                 held, raised, deals>>

\* to_json(output_file)
ToJson ==
    /\ data' = DataAfterEnsure
    /\ outcome' = OutcomeAfterEnsure
    /\ json' = [exists |-> TRUE, rows |-> DataAfterEnsure]
    /\ UNCHANGED <<items, skipped, csv, df, adf, score, category, text, parsed, number,
                 held, raised, deals>>

\* to_csv(output_file)
ToCsv ==
    /\ data' = DataAfterEnsure
    /\ outcome' = OutcomeAfterEnsure
    /\ csv' = WriteCsv(DataAfterEnsure)
    /\ UNCHANGED <<items, skipped, json, df, adf, score, category, text, parsed, number,
                 held, raised, deals>>

(***************************************************************************)
(* Operations of QualityScorer and GrundstueckAnalyzer                     *)
(***************************************************************************)
\* QualityScorer(csv_file): read_csv fails on a file without columns
ScorerInit ==
    /\ csv.exists /\ csv.rows # <<>>
    /\ df' = [built |-> TRUE,
              rows |-> [i \in 1..Len(csv.rows) |-> prepare_row(read_csv(csv)[i])]]
    /\ held' = held \ {"df"}
    /\ raised' = "none"
    /\ deals' = <<>>
    /\ UNCHANGED <<items, data, outcome, skipped, csv, json, adf, score, category, text, parsed, number>>

\* calculate_quality_score(): sets the columns of self.df and returns self.df
CalculateQualityScore ==
    /\ df.built
    /\ df' = [df EXCEPT !.rows = [i \in 1..Len(df.rows) |-> score_row(df.rows[i])]]
    /\ held' = held \cup {"df"}
    /\ raised' = "none"
    /\ UNCHANGED <<items, data, outcome, skipped, csv, json, adf, score, category, text, parsed, number,
                 deals>>

\* the columns of a frame
Columns(frame) == IF frame.rows = <<>> THEN {} ELSE DOMAIN frame.rows[1]

\* a valuation that takes a missing quality_score column for NaN
CalculateQualityAdjustedPrice_without_score ==
    /\ df.built
    /\ df' = [df EXCEPT !.rows =
                [i \in 1..Len(df.rows) |->
                    IF "quality_score" \in Columns(df) THEN value_row(df.rows[i])
                    ELSE SetCols(df.rows[i],
                                 [quality_factor |-> DNaN,
                                  expected_price_per_sqm |-> DNaN,
                                  price_quality_ratio |-> DNaN,
                                  value_rating |-> get_value_rating(DNaN)])]]
    /\ held' = held \cup {"df"}
    /\ raised' = "none"
    /\ UNCHANGED <<items, data, outcome, skipped, csv, json, adf, score, category, text, parsed, number,
                 deals>>

\* calculate_quality_adjusted_price(): self.df['quality_score'] raises
\* KeyError before any column is set; else sets the columns of self.df and
\* returns self.df
CalculateQualityAdjustedPrice ==
    /\ df.built
    /\ IF "quality_score" \in Columns(df)
       THEN /\ df' = [df EXCEPT !.rows = [i \in 1..Len(df.rows) |-> value_row(df.rows[i])]]
            /\ held' = held \cup {"df"}
            /\ raised' = "none"
       ELSE /\ raised' = "KeyError"
            /\ UNCHANGED <<df, held>>
    /\ UNCHANGED <<items, data, outcome, skipped, csv, json, adf, score, category, text, parsed, number,
                 deals>>

\* the deal score with the quality weight 0.2 and the ratio taken sixty times
deal_score_low_quality_weight(quality_score, price_quality_ratio) ==
    DAdd(DMul(quality_score, ToDouble(Rat(2, 10))),
         DMul(DSub(FromInt(100), DMul(price_quality_ratio, FromInt(60))),
              ToDouble(Rat(4, 10))))

\* valid_df['quality_score'] * 0.6 + (100 - valid_df['price_quality_ratio'] * 50) * 0.4
deal_score(quality_score, price_quality_ratio) ==
    DAdd(DMul(quality_score, ToDouble(Rat(6, 10))),
         DMul(DSub(FromInt(100), DMul(price_quality_ratio, FromInt(50))),
              ToDouble(Rat(4, 10))))

\* the deal_score column of one row of valid_df
deal_row(row) ==
    SetCols(row, [deal_score |->
                    deal_score(ScoreToDouble(row.quality_score), row.price_quality_ratio)])

\* the columns dropna looks at, and the columns of the result
DealSubset == {"quality_score", "price_quality_ratio", "purchase_price"}
DealColumns ==
    {"title", "district", "purchase_price", "plot_area", "price_per_sqm",
     "quality_score", "quality_category", "value_rating", "deal_score",
     "short_term_constructible", "development", "constructible_type"}

\* self.df.dropna(subset=[...]): a new frame of the rows without NaN there
dropna(rows) ==
    SelectSeq(rows, LAMBDA r : /\ r.quality_score # ScoreNaN
                               /\ r.price_quality_ratio.c # "nan"
                               /\ r.purchase_price # NaN)

\* nlargest(top_n, 'deal_score'): the top_n rows by descending deal score,
\* the first of equal ones first
RECURSIVE nlargest(_, _)
nlargest(rows, top_n) ==
    IF top_n <= 0 \/ rows = <<>> THEN <<>>
    ELSE LET i == CHOOSE k \in 1..Len(rows) :
                    /\ \A j \in 1..Len(rows) :
                          ~ DLess(rows[k].deal_score, rows[j].deal_score)
                    /\ \A j \in 1..(k - 1) :
                          DLess(rows[j].deal_score, rows[k].deal_score)
         IN  <<rows[i]>> \o nlargest(SubSeq(rows, 1, i - 1)
                                   \o SubSeq(rows, i + 1, Len(rows)), top_n - 1)

\* the result with deal_score stored into self.df as well
find_best_quality_deals_in_place(frame, top_n) ==
    LET valid == [i \in 1..Len(dropna(frame.rows)) |-> deal_row(dropna(frame.rows)[i])]
        best == nlargest(valid, top_n)
    IN  [df |-> [frame EXCEPT !.rows = valid],
         deals |-> [i \in 1..Len(best) |-> [c \in DealColumns |-> best[i][c]]]]

\* find_best_quality_deals(top_n) on a frame that has every column it names
find_best_quality_deals(frame, top_n) ==
    LET valid == [i \in 1..Len(dropna(frame.rows)) |-> deal_row(dropna(frame.rows)[i])]
        best == nlargest(valid, top_n)
    IN  [df |-> frame,
         deals |-> [i \in 1..Len(best) |-> [c \in DealColumns |-> best[i][c]]]]

\* largest top_n asked for
MaxTop == 2

\* find_best_quality_deals(top_n): KeyError from dropna or from the column
\* selection when the frame lacks a column
FindBestQualityDeals(top_n) ==
    /\ df.built
    /\    IF DealSubset \subseteq Columns(df)
                /\ DealColumns \subseteq (Columns(df) \cup {"deal_score"})
          THEN LET r == find_best_quality_deals(df, top_n)
               IN  /\ df' = r.df
                   /\ deals' = r.deals
                   /\ raised' = "none"
          ELSE /\ raised' = "KeyError"
               /\ UNCHANGED <<df, deals>>
    /\ UNCHANGED <<items, data, outcome, skipped, csv, json, adf, score, category, text, parsed, number,
                 held>>

\* GrundstueckAnalyzer(csv_file)
AnalyzerInit ==
    /\ csv.exists /\ csv.rows # <<>>
    /\ adf' = [built |-> TRUE,
               rows |-> [i \in 1..Len(csv.rows) |-> clean_row(read_csv(csv)[i])]]
    /\ UNCHANGED <<items, data, outcome, skipped, csv, json, df, score, category, text, parsed, number,
                 held, raised, deals>>

Next ==
    \/ Parse
    \/ ToDataframe
    \/ ToJson
    \/ ToCsv
    \/ ScorerInit
    \/ CalculateQualityScore
    \/ CalculateQualityAdjustedPrice
    \/ AnalyzerInit

Spec == Init /\ [][Next]_vars

(***************************************************************************)
(* The scorer on its own: every call sequence of its operations on a CSV   *)
(* file the parser wrote or on a CSV file from elsewhere                   *)
(***************************************************************************)
ParserFiles ==
    {WriteCsv(parse_loop(b, <<>>).data) :
        b \in {x \in Batches : parse_loop(x, <<>>).data # <<>>}}

InitScorer ==
    /\ items = <<>>
    /\ csv \in ParserFiles \cup ExternalFiles
    /\ data = <<>>
    /\ outcome = "none"
    /\ skipped = 0
    /\ json = NoFile
    /\ df = NoDf
    /\ adf = NoDf
    /\ score = 0
    /\ category = "unset"
    /\ text = <<>>
    /\ parsed = "none"
    /\ number = NaN
    /\ held = {}
    /\ raised = "none"
    /\ deals = <<>>

NextScorer ==
    \/ ScorerInit
    \/ CalculateQualityScore
    \/ CalculateQualityAdjustedPrice
    \/ \E top_n \in 0..MaxTop : FindBestQualityDeals(top_n)

SpecScorer == InitScorer /\ [][NextScorer]_vars

(***************************************************************************)
(* The category binning on its own                                         *)
(***************************************************************************)
\* largest score handed to the binning, in hundredths
MaxProbe == 10000

InitCut ==
    /\ items = <<>>
    /\ csv = NoFile
    /\ data = <<>>
    /\ outcome = "none"
    /\ skipped = 0
    /\ json = NoFile
    /\ df = NoDf
    /\ adf = NoDf
    /\ score \in 0..MaxProbe
    /\ category = "unset"
    /\ text = <<>>
    /\ parsed = "none"
    /\ number = NaN
    /\ held = {}
    /\ raised = "none"
    /\ deals = <<>>

\* the pd.cut call of calculate_quality_score on one score
Cut ==
    /\ category = "unset"
    /\ category' = quality_category(score)
    /\ UNCHANGED <<items, data, outcome, skipped, csv, json, df, adf, score, text, parsed, number,
                 held, raised, deals>>

NextCut == Cut

SpecCut == InitCut /\ [][NextCut]_vars

(***************************************************************************)
(* The valuation on its own: a frame of one row whose quality_score and    *)
(* price_per_sqm columns are given (a CSV file that already carries a      *)
(* quality_score column)                                                   *)
(***************************************************************************)
\* largest quality score of such a frame, in hundredths
MaxValueScore == 12000

ValueScores == {ScoreNaN} \cup {q \in 0..MaxValueScore : q % 50 = 0}
InitValue ==
    /\ items = <<>>
    /\ csv = NoFile
    /\ data = <<>>
    /\ outcome = "none"
    /\ skipped = 0
    /\ json = NoFile
    /\ adf = NoDf
    /\ score = 0
    /\ category = "unset"
    /\ text = <<>>
    /\ parsed = "none"
    /\ number = NaN
    /\ held = {}
    /\ raised = "none"
    /\ deals = <<>>
    /\ \E q \in ValueScores, p \in ValuePrices :
          df = [built |-> TRUE,
                rows |-> <<[id |-> <<"9">>, price_per_sqm |-> p, quality_score |-> q]>>]

NextValue == CalculateQualityAdjustedPrice

SpecValue == InitValue /\ [][NextValue]_vars

(***************************************************************************)
(* The field normalizers on their own                                      *)
(***************************************************************************)
\* longest generated text
MaxText == 4

\* the texts over the characters of prices, and over those of areas
PriceChars == {"€", "1", "0", ",", ".", "/", " "}
AreaChars == {"1", "0", ",", ".", " ", "m", "²"}
ParseTexts ==
    SeqsUpTo(PriceChars, MaxText) \cup SeqsUpTo(AreaChars, MaxText)
        \cup {T_Price598550, T_Price1897Month, T_Area1142, T_AreaNoData,
               T_PriceReq, Null}

InitParse ==
    /\ items = <<>>
    /\ csv = NoFile
    /\ data = <<>>
    /\ outcome = "none"
    /\ skipped = 0
    /\ json = NoFile
    /\ df = NoDf
    /\ adf = NoDf
    /\ score = 0
    /\ category = "unset"
    /\ text \in ParseTexts
    /\ parsed = "none"
    /\ number = NaN
    /\ held = {}
    /\ raised = "none"
    /\ deals = <<>>

\* parse_price(text)
ParsePrice ==
    /\ parsed = "none"
    /\ parsed' = "price"
    /\ number' = parse_price(text)
    /\ UNCHANGED <<items, data, outcome, skipped, csv, json, df, adf, score,
                   category, text,
                 held, raised, deals>>

\* parse_area(text)
ParseArea ==
    /\ parsed = "none"
    /\ parsed' = "area"
    /\ number' = parse_area(text)
    /\ UNCHANGED <<items, data, outcome, skipped, csv, json, df, adf, score,
                   category, text,
                 held, raised, deals>>

NextParse == ParsePrice \/ ParseArea

SpecParse == InitParse /\ [][NextParse]_vars

(***************************************************************************)
(* Properties                                                              *)
(***************************************************************************)
\* the listings of the model whose extraction raises (L_bad: ValueError,
\* L_empty: TypeError in extract_coordinates)
Malformed == {L_bad, L_empty}
WellFormed(item) == item \notin Malformed
NumWellFormed == Cardinality({i \in 1..Len(items) : WellFormed(items[i])})

\* rows of the scorer that calculate_quality_score has scored
Scored(row) == "quality_score" \in DOMAIN row
ScoredRows == {df.rows[i] : i \in {j \in 1..Len(df.rows) : Scored(df.rows[j])}}

\* C1: an exception raised while extracting one listing is caught at the
\* listing boundary: parse() returns normally, the failing listing contributes
\* no record and every listing that extracts without error contributes its
\* record.
C1_FailureIsolated ==
    outcome # "none" =>
        /\ outcome = "returned"
        /\ \A i \in 1..Len(items) :
              IF WellFormed(items[i])
              THEN \E j \in 1..Len(data) : data[j] = ExtractItem(items[i]).rec
              ELSE ~ \E j \in 1..Len(data) : data[j].id = items[i].id

C1_Witness ==
    /\ outcome = "returned"
    /\ Len(items) = 2
    /\ items[1] \in Malformed
    /\ WellFormed(items[2])
    /\ Len(data) = 1

\* C2: in every run of parse(), the skipped listings counted in that run plus
\* the records emitted in that run equal the number of listings scanned.
C2_SkippedPlusEmitted ==
    [][(outcome' # outcome \/ data' # data) =>
          (skipped' - skipped) + (Len(data') - Len(data)) = Len(items)]_vars

\* C3: after any sequence of parse(), to_dataframe(), to_json() and to_csv()
\* calls, self.data holds exactly one record per successfully extracted
\* listing.
C3_OneRecordPerListing ==
    /\ outcome = "none" => data = <<>>
    /\ outcome # "none" => Len(data) = NumWellFormed

\* the raw Price/m² text of a listing
RawPricePerSqm(item) == Get(extract_attributes(item), "Price/m²:", <<>>)

\* price_per_sqm was null before normalization, price and area are known:
\* the normalized value is their quotient
DerivedWhenMissing(before, rec) ==
    (before = NaN /\ rec.purchase_price # NaN /\ rec.plot_area # NaN) =>
        rec.price_per_sqm = FDiv(rec.purchase_price, rec.plot_area)

\* C4: in every stage that normalizes a record (parse(), _prepare_data,
\* _clean_data), a price_per_sqm that was null before normalization is
\* purchase_price / plot_area afterwards when both are non-null.
C4_DerivedPricePerSqm ==
    [][/\ data' # data =>
            LET ok == SelectSeq(items, WellFormed)
            IN  \A k \in 1..Len(ok) :
                    Len(data) + k <= Len(data') =>
                        DerivedWhenMissing(parse_price(RawPricePerSqm(ok[k])),
                                           data'[Len(data) + k])
       /\ ScorerInit =>
            \A i \in 1..Len(df'.rows) :
                DerivedWhenMissing(csv.rows[i].price_per_sqm, df'.rows[i])
       /\ AnalyzerInit =>
            \A i \in 1..Len(adf'.rows) :
                DerivedWhenMissing(csv.rows[i].price_per_sqm, adf'.rows[i])]_vars

\* C5: quality_score is 0.40*permission + 0.25*development + 0.20*readiness
\* + 0.15*demolition of the record's own sub-scores, the same weights (with
\* sum 1.0) for every record.
C5_WeightedSum ==
    \A row \in ScoredRows :
        row.quality_score =
            40 * row.score_building_permission + 25 * row.score_development
              + 20 * row.score_construction_readiness + 15 * row.score_demolition

C5_Witness ==
    /\ Len(df.rows) = 2
    /\ Scored(df.rows[1]) /\ Scored(df.rows[2])
    /\ df.rows[1].score_building_permission # df.rows[2].score_building_permission
    /\ df.rows[1].score_development # df.rows[2].score_development
    /\ df.rows[1].quality_score # df.rows[2].quality_score

\* C6: for all values of the four categorical inputs, null included, every
\* sub-score is an integer in 0..100 and quality_score lies in [0, 100].
C6_ScoreRanges ==
    \A row \in ScoredRows :
        /\ row.score_building_permission \in 0..100
        /\ row.score_development \in 0..100
        /\ row.score_construction_readiness \in 0..100
        /\ row.score_demolition \in 0..100
        /\ 0 <= row.quality_score /\ row.quality_score <= 10000

C6_Witness ==
    \E row \in ScoredRows :
        /\ row.constructible_type = Null /\ row.development = Null
        /\ row.short_term_constructible = Null /\ row.demolition = Null
        /\ row.quality_score = 20 * 40 + 50 * 25 + 40 * 20 + 70 * 15

\* C7 as stated: 50 if constructible_type contains "construction plan", else
\* 40 if it contains "like neighbour", else 20 if null, else 30.
C7_PermissionAsStated ==
    \A row \in ScoredRows :
        LET v == Lower(Str(row.constructible_type))
        IN  row.score_building_permission =
                IF Contains(v, P_construction_plan) THEN 50
                ELSE IF Contains(v, P_like_neighbour) THEN 40
                ELSE IF row.constructible_type = Null THEN 20
                ELSE 30

\* C7 (amended): 50 if constructible_type contains "construction plan" or
\* "bebauungsplan", else 40 if it contains "like neighbour", else 20 if null,
\* else 30; case-insensitive, first match wins.
C7_Permission ==
    \A row \in ScoredRows :
        LET v == Lower(Str(row.constructible_type))
        IN  row.score_building_permission =
                IF Contains(v, P_construction_plan) \/ Contains(v, P_bebauungsplan)
                THEN 50
                ELSE IF Contains(v, P_like_neighbour) THEN 40
                ELSE IF row.constructible_type = Null THEN 20
                ELSE 30

C7_Witness ==
    /\ \E row \in ScoredRows :
          row.constructible_type = T_Bebauungsplan /\ row.score_building_permission = 50
    /\ \E row \in ScoredRows :
          row.constructible_type = T_Outlying /\ row.score_building_permission = 30

C9_ReadinessDemolition ==
    \A row \in ScoredRows :
        /\ row.score_construction_readiness =
              IF Lower(Str(row.short_term_constructible)) = P_yes THEN 100 ELSE 40
        /\ row.short_term_constructible \in {S_Yes, T_YES} =>
              row.score_construction_readiness = 100
        /\ row.short_term_constructible = Null =>
              row.score_construction_readiness = 40
        /\ row.score_demolition =
              IF Lower(Str(row.demolition)) = P_no THEN 100
              ELSE IF Lower(Str(row.demolition)) = P_yes THEN 30
              ELSE 70
        /\ row.demolition = Null => row.score_demolition = 70

C9_Witness ==
    \E row \in ScoredRows :
        /\ row.short_term_constructible = T_YES
        /\ row.score_construction_readiness = 100
        /\ row.demolition = Null
        /\ row.score_demolition = 70

\* C10: the categories are the bins (0,40], (40,60], (60,80], (80,100]:
\* Niedrig, Mittel, Gut, Sehr Gut; 40 is Niedrig and 100 is Sehr Gut.
C10_Categories ==
    category # "unset" =>
        /\ (0 < score /\ score <= 4000) => category = "Niedrig"
        /\ (4000 < score /\ score <= 6000) => category = "Mittel"
        /\ (6000 < score /\ score <= 8000) => category = "Gut"
        /\ (8000 < score /\ score <= 10000) => category = "Sehr Gut"

C10_Witness == score = 4000 /\ category = "Niedrig"

\* the four sub-scores of a scored row
SubScores(row) ==
    <<row.score_building_permission, row.score_development,
      row.score_construction_readiness, row.score_demolition>>

\* C11 as stated: a record whose four sub-scores give an aggregate of exactly
\* 40.0 (permission 30, development 20, readiness 40, demolition 100) is
\* categorized Mittel.
C11_FortyIsMittel ==
    \A row \in ScoredRows :
        row.quality_score = 4000 => row.quality_category = "Mittel"

\* C11: a record whose four sub-scores give an aggregate of exactly 40.0 is
\* categorized Niedrig: 40 is the closed right end of the bin (0, 40].
C11_FortyIsNiedrig ==
    \A row \in ScoredRows :
        row.quality_score = 4000 => row.quality_category = "Niedrig"

C11_Witness ==
    \E row \in ScoredRows :
        /\ SubScores(row) = <<30, 20, 40, 100>>
        /\ row.quality_score = 4000
        /\ row.quality_category = "Niedrig"

BestCase(row) ==
    /\ row.constructible_type = T_ConstructionPlan
    /\ row.development = T_Developed
    /\ row.short_term_constructible = S_Yes
    /\ row.demolition = S_No

\* C13 as stated: constructible_type "Construction plan", development
\* "Developed", short_term_constructible "Yes" and demolition "No" give
\* sub-scores 50/100/100/100, quality_score 80.0 and category Sehr Gut.
C13_BestCaseIsSehrGut ==
    \A row \in ScoredRows :
        BestCase(row) =>
            /\ SubScores(row) = <<50, 100, 100, 100>>
            /\ row.quality_score = 8000
            /\ row.quality_category = "Sehr Gut"

\* C13: the same listing gets sub-scores 50/100/100/100, quality_score 80.0
\* and category Gut: 80 is the closed right end of the bin (60, 80].
C13_BestCaseIsGut ==
    \A row \in ScoredRows :
        BestCase(row) =>
            /\ SubScores(row) = <<50, 100, 100, 100>>
            /\ row.quality_score = 8000
            /\ row.quality_category = "Gut"

C13_Witness ==
    /\ \E i \in 1..Len(items) : items[i] = L_best
    /\ \E row \in ScoredRows :
          /\ row.id = L_best.id
          /\ BestCase(row)
          /\ row.quality_score = 8000
          /\ row.quality_category = "Gut"

\* rows of the scorer that calculate_quality_adjusted_price has valued
Valued(row) == "value_rating" \in DOMAIN row
ValuedRows == {df.rows[i] : i \in {j \in 1..Len(df.rows) : Valued(df.rows[j])}}

\* 80/70 lies strictly between these two doubles
R_11428 == ToDouble(Rat(11428, 10000))
R_11429 == ToDouble(Rat(11429, 10000))
About80Over70(ratio) == DLess(R_11428, ratio) /\ DLess(ratio, R_11429)

NearScoreOver70(ratio, q) ==
    /\ DLess(quality_factor(q - 1), ratio)
    /\ DLess(ratio, quality_factor(q + 1))

\* C15 as stated: for any record with a non-null quality score and a non-null
\* price_per_sqm, 0 included, price_quality_ratio is quality_score / 70 and
\* the value rating is the rating of quality_score / 70, whatever the price.
C15_RatioIsScoreOver70 ==
    \A row \in ValuedRows :
        row.price_per_sqm # NaN =>
            /\ NearScoreOver70(row.price_quality_ratio, row.quality_score)
            /\ row.value_rating = get_value_rating(quality_factor(row.quality_score))

\* the six value ratings
ValueRatings ==
    {"Sehr günstig", "Günstig", "Fair", "Teuer", "Sehr teuer", "Keine Daten"}

\* the rating that the thresholds 0.85, 0.95, 1.05, 1.15 assign to a ratio
RatingByThresholds(r, v) ==
    /\ v \in ValueRatings
    /\ r = DNaN <=> v = "Keine Daten"
    /\ DLess(r, R_085) <=> v = "Sehr günstig"
    /\ (DLeq(R_085, r) /\ DLess(r, R_095)) <=> v = "Günstig"
    /\ (DLeq(R_095, r) /\ DLeq(r, R_105)) <=> v = "Fair"
    /\ (DLess(R_105, r) /\ DLeq(r, R_115)) <=> v = "Teuer"
    /\ DLess(R_115, r) <=> v = "Sehr teuer"

\* C16: the value rating is a total function of price_quality_ratio:
\* ratio < 0.85 Sehr günstig; 0.85 <= ratio < 0.95 Günstig; 0.95 <= ratio <=
\* 1.05 Fair; 1.05 < ratio <= 1.15 Teuer; ratio > 1.15 Sehr teuer; NaN Keine
\* Daten. Every record gets exactly one of the six ratings.
C16_RatingThresholds ==
    \A row \in ValuedRows :
        RatingByThresholds(row.price_quality_ratio, row.value_rating)

C16_Witness ==
    \E row \in ValuedRows :
        /\ row.price_quality_ratio = R_085
        /\ row.value_rating = "Günstig"

\* valuation math is undefined for a row: price_per_sqm null, quality_score
\* null or quality factor zero
DivisionUndefined(row) ==
    \/ row.price_per_sqm = NaN
    \/ row.quality_score = ScoreNaN
    \/ row.quality_factor = DZero

\* C17 as stated: when valuation math is undefined for a record,
\* expected_price_per_sqm and price_quality_ratio are null and value_rating
\* is Keine Daten, and the record is still emitted.
C17_UndefinedIsNoData ==
    /\ Len(df.rows) = 1
    /\ \A row \in ValuedRows :
          /\ row.id = <<"9">>
          /\ DivisionUndefined(row) =>
                /\ row.expected_price_per_sqm = DNaN
                /\ row.price_quality_ratio = DNaN
                /\ row.value_rating = "Keine Daten"

\* the listing has a section of type t
HasSection(item, t) ==
    \E k \in 1..Len(item.sections) : item.sections[k].type = t

\* the listing has an attribute with the given label
HasAttribute(item, label) ==
    \E k \in 1..Len(item.sections) :
        /\ item.sections[k].type \in {"TOP_ATTRIBUTES", "ATTRIBUTE_LIST"}
        /\ \E a \in 1..Len(item.sections[k].attributes) :
              item.sections[k].attributes[a].label = label

\* the fields of rec whose section or attribute is absent from item are null;
\* short_term_constructible and demolition are whenMissing
MissingFields(item, rec, whenMissing) ==
    /\ \A f \in {<<"Commercialisation type:", "commercialisation_type">>,
                  <<"Development:", "development">>,
                  <<"Constructible type:", "constructible_type">>,
                  <<"Recommended use:", "recommended_use">>,
                  <<"Free from:", "free_from">>,
                  <<"Commission for the purchaser:", "commission">>} :
          ~ HasAttribute(item, f[1]) => rec[f[2]] = Null
    /\ \A f \in {<<"Short-term constructible:", "short_term_constructible">>,
                  <<"Demolition:", "demolition">>} :
          ~ HasAttribute(item, f[1]) => rec[f[2]] = whenMissing
    /\ (~ HasAttribute(item, "Purchase:") /\ ~ HasAttribute(item, "Purchase price"))
          => rec.purchase_price = NaN
    /\ (~ HasAttribute(item, "Plot area approx.:") /\ ~ HasAttribute(item, "Plot area"))
          => rec.plot_area = NaN
    /\ ~ HasAttribute(item, "Price/m²:") => rec.price_per_sqm = NaN
    /\ ~ HasSection(item, "MAP") =>
          /\ rec.street = Null /\ rec.full_address = Null /\ rec.district = Null
          /\ rec.latitude = NaN /\ rec.longitude = NaN
    /\ ~ HasSection(item, "TEXT_AREA") =>
          rec.description = Null /\ rec.location_desc = Null /\ rec.further_notes = Null
    /\ ~ HasSection(item, "AGENTS_INFO") =>
          rec.agent_company = Null /\ rec.agent_name = Null /\ rec.agent_rating = Null
    /\ ~ HasSection(item, "TITLE") => rec.title = Null

\* after parse(), every listing that extracts has records, and all of them
\* satisfy MissingFields
EmittedWithMissing(whenMissing) ==
    outcome # "none" =>
        \A i \in 1..Len(items) :
            WellFormed(items[i]) =>
                /\ \E j \in 1..Len(data) : data[j].id = TextOrNone(items[i].id)
                /\ \A j \in 1..Len(data) :
                      data[j].id = TextOrNone(items[i].id) =>
                          MissingFields(items[i], data[j], whenMissing)

\* C18 as stated: when a section or attribute that a field depends on is
\* absent, that field of the emitted record is null and no error is raised,
\* for every categorical field, short_term_constructible and demolition
\* included, and for price, area, address, coordinates, description and agent.
C18_MissingIsNull == EmittedWithMissing(Null)

\* C18: when a section or attribute that a field depends on is absent, no
\* error is raised and that field of the emitted record is null, except
\* short_term_constructible and demolition, which are 'No'.
C18_MissingIsNullOrNo == EmittedWithMissing(S_No)

C18_Witness ==
    /\ outcome = "returned"
    /\ items = <<L_bare>>
    /\ Len(data) >= 1
    /\ data[1].id = Null /\ data[1].title = Null
    /\ data[1].development = Null /\ data[1].commission = Null
    /\ data[1].short_term_constructible = S_No
    /\ data[1].demolition = S_No
    /\ data[1].full_address = Null /\ data[1].agent_name = Null
    /\ data[1].purchase_price = NaN /\ data[1].latitude = NaN

\* the district as the claim describes it: the text before the first comma
\* without a leading run of digits and the whitespace after it; null if the
\* address is null or nothing is left
DistrictAsStated(full) ==
    IF full = Null THEN Null
    ELSE LET seg == Strip(SplitFirst(full, ","))
             left == LStrip(SubSeq(seg, Len(LeadingDigits(seg)) + 1, Len(seg)))
         IN  IF left = <<>> THEN Null ELSE left

\* C19 as stated: district is the text of full_address before the first
\* comma without the leading digits and the whitespace after them, and null
\* if full_address is null or the first segment is empty or only a postal code.
C19_District ==
    \A j \in 1..Len(data) :
        data[j].district = DistrictAsStated(data[j].full_address)

\* a MAP section of the listing has a location with lat and lng leaves that
\* both have content
HasCoordinates(item) ==
    \E k \in 1..Len(item.sections) :
        /\ item.sections[k].type = "MAP"
        /\ item.sections[k].location.present
        /\ item.sections[k].location.lat \notin {Absent, Null}
        /\ item.sections[k].location.lng \notin {Absent, Null}

\* C20 as stated: extract_coordinates raises for no listing: after parse()
\* every listing has its record, with both coordinates non-null when a MAP
\* section with a location holding lat and lng exists and both null
\* otherwise.
C20_CoordinatesNeverRaise ==
    outcome # "none" =>
        \A i \in 1..Len(items) :
            \E j \in 1..Len(data) :
                /\ data[j].id = TextOrNone(items[i].id)
                /\ IF HasCoordinates(items[i])
                   THEN data[j].latitude # NaN /\ data[j].longitude # NaN
                   ELSE data[j].latitude = NaN /\ data[j].longitude = NaN

\* s is an unsigned decimal numeral: digits with at most one point
IsDecimal(s) ==
    /\ \A i \in 1..Len(s) : IsDigit(s[i]) \/ s[i] = "."
    /\ Cardinality({i \in 1..Len(s) : s[i] = "."}) <= 1
    /\ \E i \in 1..Len(s) : IsDigit(s[i])

\* the value of a decimal numeral
DecimalValue(s) ==
    LET digits == SelectSeq(s, LAMBDA c : c # ".")
        points == {i \in 1..Len(s) : s[i] = "."}
        places == IF points = {} THEN 0 ELSE Len(s) - (CHOOSE i \in points : TRUE)
        N[i \in 0..Len(digits)] ==
            IF i = 0 THEN 0 ELSE N[i - 1] * 10 + DigitVal(digits[i])
    IN  Rat(N[Len(digits)], Pow10(places))

\* s without the blanks at its ends
Trimmed(s) ==
    LET solid == {i \in 1..Len(s) : s[i] # " "}
    IN  IF solid = {} THEN <<>>
        ELSE SubSeq(s, CHOOSE i \in solid : \A j \in solid : i <= j,
                       CHOOSE i \in solid : \A j \in solid : j <= i)

\* the price as the claim describes it: the decimal value of the text before
\* the first "/" without currency symbol and thousands separators; null for
\* an empty text and for a text that is no numeral
PriceAsStated(t) ==
    IF t = Null \/ t = <<>> THEN NaN
    ELSE LET slashes == {i \in 1..Len(t) : t[i] = "/"}
             before == IF slashes = {} THEN t
                       ELSE SubSeq(t, 1, (CHOOSE i \in slashes :
                                            \A j \in slashes : i <= j) - 1)
             core == Trimmed(SelectSeq(before, LAMBDA c : c \notin {"€", ","}))
         IN  IF IsDecimal(core) THEN DecimalValue(core) ELSE NaN

\* C21: parse_price returns null for an empty text and for a text whose
\* magnitude cannot be parsed, and otherwise the decimal value of the text
\* before the first "/" without currency symbol and thousands separators:
\* "€598,550" gives 598550.0, "€1,897 / month" gives 1897.0, "" gives null.
C21_ParsePrice ==
    parsed = "price" =>
        /\ number = PriceAsStated(text)
        /\ text = T_Price598550 => number = Rat(598550, 1)
        /\ text = T_Price1897Month => number = Rat(1897, 1)
        /\ text = <<>> => number = NaN

C21_Witness ==
    parsed = "price" /\ text = T_Price1897Month /\ number = Rat(1897, 1)

\* the area as the claim describes it: the value of the first run of digits,
\* "," and "." that is followed, after optional blanks, by "m²", without the
\* thousands separators; null if there is no such run or it is no numeral
AreaAsStated(t) ==
    IF t = Null \/ t = <<>> THEN NaN
    ELSE LET InToken(i) == IsDigit(t[i]) \/ t[i] \in {",", "."}
             runs == {r \in (1..Len(t)) \X (1..Len(t)) :
                        /\ r[1] <= r[2]
                        /\ \A k \in r[1]..r[2] : InToken(k)
                        /\ r[1] = 1 \/ ~ InToken(r[1] - 1)
                        /\ r[2] = Len(t) \/ ~ InToken(r[2] + 1)}
             BeforeUnit(r) ==
                 \E k \in (r[2] + 1)..(Len(t) - 1) :
                     /\ \A j \in (r[2] + 1)..(k - 1) : t[j] = " "
                     /\ t[k] = "m" /\ t[k + 1] = "²"
             tokens == {r \in runs : BeforeUnit(r)}
         IN  IF tokens = {} THEN NaN
             ELSE LET first == CHOOSE r \in tokens : \A q \in tokens : r[1] <= q[1]
                      core == SelectSeq(SubSeq(t, first[1], first[2]),
                                        LAMBDA c : c # ",")
                  IN  IF IsDecimal(core) THEN DecimalValue(core) ELSE NaN

\* C22: parse_area returns the value of the first numeric token immediately
\* before the square-meter marker and null if the text is empty or has no
\* such token: "1,142 m²" gives 1142.0, "no data" gives null.
C22_ParseArea ==
    parsed = "area" =>
        /\ number = AreaAsStated(text)
        /\ text = T_Area1142 => number = Rat(1142, 1)
        /\ text = T_AreaNoData => number = NaN
        /\ text = <<>> => number = NaN

C22_Witness ==
    parsed = "area" /\ text = T_Area1142 /\ number = Rat(1142, 1)

\* the attributes of the sections of type t, in document order
AttributesIn(item, t) ==
    LET secs == SelectSeq(item.sections, LAMBDA s : s.type = t)
        All[k \in 0..Len(secs)] ==
            IF k = 0 THEN <<>> ELSE All[k - 1] \o secs[k].attributes
    IN  All[Len(secs)]

\* the entries of the top attributes that carry a value for the label
TopValues(item, label) ==
    SelectSeq(AttributesIn(item, "TOP_ATTRIBUTES"),
              LAMBDA a : a.label = label /\ a.text # Absent)

\* the entries of the attribute lists that carry a value for the label: a
\* text, or a CHECK without text
ListValues(item, label) ==
    SelectSeq(AttributesIn(item, "ATTRIBUTE_LIST"),
              LAMBDA a : a.label = label /\ (a.text # Absent \/ a.type = "CHECK"))

ValueOf(a) == IF a.text # Absent THEN a.text ELSE S_Yes

AttributeLabels ==
    {"Purchase:", "Purchase price", "Plot area approx.:", "Plot area", "Price/m²:",
     "Commercialisation type:", "Short-term constructible:", "Development:",
     "Constructible type:", "Recommended use:", "Demolition:", "Free from:",
     "Commission for the purchaser:"}

\* the attribute map as the claim describes it: the last value of the
\* attribute lists if there is one, else the last value of the top attributes
AttributesAsStated(item, attributes) ==
    \A label \in AttributeLabels :
        LET tops == TopValues(item, label)
            lists == ListValues(item, label)
        IN  IF lists # <<>>
            THEN label \in DOMAIN attributes
                 /\ attributes[label] = ValueOf(lists[Len(lists)])
            ELSE IF tops # <<>>
            THEN label \in DOMAIN attributes
                 /\ attributes[label] = ValueOf(tops[Len(tops)])
            ELSE label \notin DOMAIN attributes

\* C26: extract_attributes reads all TOP_ATTRIBUTES sections first and all
\* ATTRIBUTE_LIST sections second, a later entry overwriting an earlier one
\* with the same label; a CHECK entry without text counts as "Yes". For a
\* label in both kinds of section the attribute-list value wins, whatever the
\* order of the sections, and the emitted record carries that value.
C26_AttributeListWins ==
    outcome # "none" =>
        \A i \in 1..Len(items) :
            /\ AttributesAsStated(items[i], extract_attributes(items[i]))
            /\ \A j \in 1..Len(data) :
                  (data[j].id = TextOrNone(items[i].id)
                     /\ ListValues(items[i], "Development:") # <<>>) =>
                      data[j].development =
                          ValueOf(ListValues(items[i], "Development:")[
                                      Len(ListValues(items[i], "Development:"))])

C26_Witness ==
    /\ outcome = "returned"
    /\ items = <<L_list_first>>
    /\ TopValues(L_list_first, "Development:") # <<>>
    /\ Len(data) >= 1
    /\ data[1].development = T_Developed
    /\ data[1].demolition = T_Partly
    /\ data[1].constructible_type = T_Outlying

\* C23: no stage changes its input in place: a record set obtained from
\* parse(), calculate_quality_score() or calculate_quality_adjusted_price()
\* (an object a caller holds by the returned reference) is left unchanged by
\* every later call.
C23_NoInPlaceMutation ==
    [][/\ "data" \in held => data' = data
       /\ ("df" \in held /\ "df" \in held') => df' = df]_vars

\* the four scored attributes, and the columns calculate_quality_score sets
ScoredAttributes ==
    {"constructible_type", "development", "short_term_constructible", "demolition"}
ScoreColumns ==
    {"score_building_permission", "score_development",
     "score_construction_readiness", "score_demolition", "quality_score",
     "quality_category"}

\* the row with every other column emptied
OnlyScoredAttributes(row) ==
    [c \in DOMAIN row |-> IF c \in ScoredAttributes THEN row[c]
                          ELSE IF c \in TextCols THEN Null ELSE NaN]

\* C24: quality_score is a function of the four scored attributes alone: two
\* rows that agree on them have equal sub-scores, quality_score and
\* quality_category whatever their other columns hold (the same row with
\* every other column emptied scores the same), and scoring a scored row
\* again gives the same values.
C24_ScoreDependsOnFourAttributes ==
    \A row \in ScoredRows :
        /\ \A c \in ScoreColumns :
              /\ score_row(OnlyScoredAttributes(row))[c] = row[c]
              /\ score_row(row)[c] = row[c]
        /\ \A other \in ScoredRows :
              (\A a \in ScoredAttributes : other[a] = row[a]) =>
                  \A c \in ScoreColumns : other[c] = row[c]

C24_Witness ==
    /\ Len(df.rows) = 2
    /\ Scored(df.rows[1]) /\ Scored(df.rows[2])
    /\ \A a \in ScoredAttributes : df.rows[1][a] = df.rows[2][a]
    /\ df.rows[1].price_per_sqm # df.rows[2].price_per_sqm
    /\ df.rows[1].quality_score = 5950
    /\ "df" \in held

\* the columns of a row that come from the CSV file
CsvColumns(row) ==
    [c \in (DOMAIN row) \ (ScoreColumns \cup {"quality_factor",
                "expected_price_per_sqm", "price_quality_ratio", "value_rating"})
        |-> row[c]]

\* what the scorer makes of a file that holds this row alone
ScoredAlone(row) == score_row(prepare_row(CsvColumns(row)))
ValuedAlone(row) == value_row(ScoredAlone(row))

\* C25: the record of a listing depends on that listing alone: after parse()
\* the records are those the well-formed listings give when each is parsed
\* as the only listing of a file, whatever listings stand before or after it
\* (failing ones included), and in a frame of several rows every scored and
\* every valued row is what the scorer makes of a file holding that row alone.
C25_ListingsIndependent ==
    /\ outcome # "none" =>
          /\ \A i \in 1..Len(items) :
                LET alone == parse_loop(<<items[i]>>, <<>>)
                IN  alone.data # <<>> =>
                        \E j \in 1..Len(data) : data[j] = alone.data[1]
          /\ \A j \in 1..Len(data) :
                \E i \in 1..Len(items) :
                    parse_loop(<<items[i]>>, <<>>).data = <<data[j]>>
    /\ Len(df.rows) >= 2 =>
          \A i \in 1..Len(df.rows) :
              LET row == df.rows[i]
              IN  /\ (Scored(row) /\ ~ Valued(row)) => row = ScoredAlone(row)
                  /\ Valued(row) => row = ValuedAlone(row)

C25_Witness ==
    /\ outcome = "returned"
    /\ items = <<L_beb, L_out>>
    /\ Len(data) = 2
    /\ Len(df.rows) = 2
    /\ Valued(df.rows[1])
    /\ df.rows[1].id # df.rows[2].id

\* C27: find_best_quality_deals(top_n) uses the deal score for the ranking
\* only: no call, whatever top_n and whatever calls went before, changes
\* self.df (no row removed or moved, no deal_score column stored).
C27_DealsLeaveFrame ==
    /\ [](\A i \in 1..Len(df.rows) : "deal_score" \notin DOMAIN df.rows[i])
    /\ [][(\E top_n \in 0..MaxTop : FindBestQualityDeals(top_n)) => df' = df]_vars

C27_Witness ==
    /\ Len(deals) = 1
    /\ "deal_score" \in DOMAIN deals[1]
    /\ Len(df.rows) = 2
    /\ deals[1].price_per_sqm = df.rows[2].price_per_sqm
    /\ deals[1].price_per_sqm # df.rows[1].price_per_sqm
    /\ \A i \in 1..2 : Valued(df.rows[i]) /\ "deal_score" \notin DOMAIN df.rows[i]

C28_Least ==
    \E row \in ValuedRows : row.quality_score = 2550 /\ row.quality_category = "Niedrig"

\* the rows find_best_quality_deals ranks
RankedRows(frame) == dropna(frame.rows)

\* best holds at most top_n rows, as many as there are to rank, a row of higher
\* quality score before one of lower, and no ranked row of higher quality
\* score than a row of best is left out
RankedByQuality(best, frame, top_n) ==
    LET ranked == RankedRows(frame)
    IN  /\ Len(best) <= top_n
        /\ Len(best) = (IF Len(ranked) <= top_n THEN Len(ranked) ELSE top_n)
        /\ \A i \in 1..Len(best) :
              /\ \A j \in (i + 1)..Len(best) :
                    best[i].quality_score >= best[j].quality_score
              /\ Cardinality({k \in 1..Len(ranked) :
                      ranked[k].quality_score > best[i].quality_score}) <= i - 1

\* x and y differ by less than 10^-9
NearlyEqual(x, y) ==
    LET d == IF DLess(x, y) THEN DSub(y, x) ELSE DSub(x, y)
    IN  DLess(d, ToDouble(Rat(1, 1000000000)))

\* the deal scores grow strictly with the quality score; rows of equal
\* quality score have deal scores that are equal(a, b)
DealScoreByQuality(best, equal(_, _)) ==
    \A i, j \in 1..Len(best) :
        /\ best[i].quality_score > best[j].quality_score =>
              DLess(best[j].deal_score, best[i].deal_score)
        /\ best[i].quality_score = best[j].quality_score =>
              equal(best[i].deal_score, best[j].deal_score)

C29_Overtakes ==
    /\ Len(deals) = 1
    /\ Len(RankedRows(df)) = 2
    /\ deals[1].quality_score = 8000
    /\ RankedRows(df)[1].quality_score = 5950

\* the fields the two stages add
ValueColumns == {"expected_price_per_sqm", "price_quality_ratio", "value_rating"}

C30_Complete ==
    /\ df.built
    /\ raised = "none"
    /\ Len(deals) = 1
    /\ \A i \in 1..Len(df.rows) : (ScoreColumns \cup ValueColumns) \subseteq DOMAIN df.rows[i]
====
